---- MODULE Spec2Model ----
(***************************************************************************)
(* RegNet design-space generator and AnyNet assembler of                   *)
(* mindcv/models/regnet.py.                                                *)
(*                                                                         *)
(* The pure functions (adjust_block_compatibility, generate_regnet,        *)
(* generate_regnet_full) are operators computed the way the code computes  *)
(* them; the constructors (AnyNet.__init__, AnyStage.__init__,             *)
(* RegNet.__init__) are state machines that log every structural node in   *)
(* the order it is constructed.  One behaviour is one call of one entry    *)
(* point: Init draws the entry point and its arguments.                    *)
(*                                                                         *)
(* Python floats are modelled as rationals [n, d] in lowest terms with     *)
(* d > 0, and the binary64 rounding of the operations that truncate is     *)
(* computed from the rounding error of the stored ratio.                   *)
(***************************************************************************)
EXTENDS Integers, Sequences, FiniteSets, TLC

VARIABLES
    op,         \* the entry point that was called
    args,       \* its arguments
    pc,         \* position inside the call
    ret,        \* what the call returned or raised ("pending" before)
    p,          \* AnyNet.__init__: the parameter dictionary p
    stem_fun,   \* AnyNet.__init__: resolved stem constructor
    block_fun,  \* AnyNet.__init__: resolved block constructor
    prev_w,     \* AnyNet.__init__: prev_w
    si,         \* AnyNet.__init__: index of the stage being built (1-based)
    bi,         \* AnyStage.__init__: loop variable i (blocks built so far)
    w_in,       \* AnyStage.__init__: local w_in
    stride,     \* AnyStage.__init__: local stride
    built,      \* every structural node constructed so far, in order
    rules       \* every cost rule applied so far by a cost traversal, in order

vars == <<op, args, pc, ret, p, stem_fun, block_fun, prev_w, si, bi, w_in, stride, built, rules>>

-----------------------------------------------------------------------------
(* Bounds of the model.                                                    *)

MaxStages == 2      \* longest list passed to adjust_block_compatibility / AnyNet
MaxWidth == 6       \* largest width in a direct adjust_block_compatibility call
MaxGroup == 4       \* largest group width in a direct adjust_block_compatibility call
MaxD == 5           \* largest depth d passed to the generator
MaxRes == 8         \* largest input height and width of a complexity state
MaxRules == 3       \* longest sequence of cost rules applied to one state

-----------------------------------------------------------------------------
(* Numbers.                                                                *)

Rat(n, d) == [n |-> n, d |-> d]
IntRat(i) == Rat(i, 1)

RLt(a, b) == a.n * b.d < b.n * a.d
RLe(a, b) == a.n * b.d <= b.n * a.d
RIsInt(a) == a.n % a.d = 0

Min(a, b) == IF a <= b THEN a ELSE b
Max(a, b) == IF a >= b THEN a ELSE b

RECURSIVE Gcd(_, _)
Gcd(a, b) == IF b = 0 THEN a ELSE Gcd(b, a % b)

\* np.lcm on positive integers
Lcm(a, b) == (a * b) \div Gcd(a, b)

RECURSIVE Pow(_, _)
Pow(b, e) == IF e = 0 THEN 1 ELSE b * Pow(b, e - 1)

\* round(n / d), d > 0: Python's round and np.round both round half to even
RoundHalfEven(n, d) ==
    LET q == n \div d
        r == n % d
    IN  IF 2 * r < d THEN q
        ELSE IF 2 * r > d THEN q + 1
        ELSE IF q % 2 = 0 THEN q ELSE q + 1

\* int(x) for x = n / d >= 0: truncation
Trunc(n, d) == n \div d

Range(s) == {s[i] : i \in DOMAIN s}

RECURSIVE SumSeq(_)
SumSeq(s) == IF s = <<>> THEN 0 ELSE Head(s) + SumSeq(Tail(s))

Raised(exc, line) == [status |-> "raised", exc |-> exc, line |-> line]
Returned(v) == [status |-> "returned", value |-> v]

-----------------------------------------------------------------------------
(* Python floats.  A ratio b = n/d is held by the code as the binary64     *)
(* number fl(n/d) nearest to it.  For the widths of the model (far below   *)
(* 2^26) a product w * b or a quotient v / b can differ from the exact     *)
(* rational result in its integer part only when the exact result is an    *)
(* integer N and the rounding error of fl(n/d), scaled by the operand, is  *)
(* more than half the spacing of the binary64 numbers next to N.           *)

RECURSIVE IsPow2(_)
IsPow2(x) == x = 1 \/ (x > 1 /\ x % 2 = 0 /\ IsPow2(x \div 2))

RECURSIVE Log2Floor(_)
Log2Floor(x) == IF x < 2 THEN 0 ELSE 1 + Log2Floor(x \div 2)

RECURSIVE Pow2Mod(_, _)
Pow2Mod(k, d) == IF k = 0 THEN 1 % d ELSE (2 * Pow2Mod(k - 1, d)) % d

\* the c >= 1 with 2^-c <= n/d < 2^(1-c), for 0 < n < d
RECURSIVE BinExp(_, _)
BinExp(n, d) == IF 2 * n >= d THEN 1 ELSE 1 + BinExp(2 * n, d)

\* fl(n/d) - n/d = sg * rho / (d * 2^(52+c)) for a ratio 0 < n/d < 1 in lowest
\* terms: the 53-bit significand is n * 2^(52+c) / d rounded to nearest.
FloatErr(b) ==
    IF b.n >= b.d \/ IsPow2(b.d) THEN [sg |-> 0, rho |-> 0, c |-> 0]
    ELSE LET c == BinExp(b.n, b.d)
             r == (b.n * Pow2Mod(52 + c, b.d)) % b.d
         IN  IF 2 * r > b.d THEN [sg |-> 1, rho |-> b.d - r, c |-> c]
             ELSE [sg |-> -1, rho |-> r, c |-> c]

\* whether x * rho / y exceeds half the spacing 2^k of the floats next to N
\* (k = c + e - 1, one less just below a power of two)
ExceedsHalfUlp(x, rho, y, k) ==
    IF k >= 0 THEN x * rho > y * Pow(2, k) ELSE x * rho * Pow(2, -k) > y

\* the float w * b for an integer w > 0: [int, exact], int its integer part
\* and exact whether the float is that integer
FloatMul(w, b) ==
    IF (w * b.n) % b.d # 0 THEN [int |-> (w * b.n) \div b.d, exact |-> FALSE]
    ELSE LET N == (w * b.n) \div b.d
             e == FloatErr(b)
             k == e.c + Log2Floor(N) - 1 - (IF e.sg < 0 /\ IsPow2(N) THEN 1 ELSE 0)
         IN  IF e.sg = 0 \/ ~ExceedsHalfUlp(w, e.rho, b.d, k)
             THEN [int |-> N, exact |-> TRUE]
             ELSE [int |-> IF e.sg > 0 THEN N ELSE N - 1, exact |-> FALSE]

\* int(v / b) for an integer v > 0 and a ratio b > 0
FloatDivTrunc(v, b) ==
    IF (v * b.d) % b.n # 0 THEN (v * b.d) \div b.n
    ELSE LET N == (v * b.d) \div b.n
             e == FloatErr(b)
             k == e.c + Log2Floor(N) - 1 - (IF IsPow2(N) THEN 1 ELSE 0)
         IN  IF e.sg <= 0 \/ ~ExceedsHalfUlp(N, e.rho, b.n, k) THEN N ELSE N - 1

-----------------------------------------------------------------------------
(* adjust_block_compatibility (regnet.py 130-141).                         *)

\* vs = [int(max(1, w * b)) ...]
BottleneckWidth(w, b) == Max(1, FloatMul(w, b).int)

\* gs = [int(min(g, v)) ...]
GroupWidth(g, v) == Min(g, v)

\* ms = [np.lcm(g, int(b)) if b > 1 else g ...]
Modulus(g, b) == IF RLt(IntRat(1), b) THEN Lcm(g, Trunc(b.n, b.d)) ELSE g

\* v rounded down to a multiple of m
RoundDownToModulus(v, m) == Max(m, (v \div m) * m)

\* v moved to the next multiple of m above it
RoundToNextModulus(v, m) == (v \div m + 1) * m

\* vs = [max(m, int(round(v / m) * m)) ...]
RoundToModulus(v, m) == Max(m, RoundHalfEven(v, m) * m)

\* ws = [int(v / b) ...]
StageWidth(v, b) == FloatDivTrunc(v, b)

\* the post-adjustment assertion of line 140 left out
CompatibleUnchecked(w, b, g) == TRUE

\* w * b % g == 0
Compatible(w, b, g) ==
    LET x == FloatMul(w, b) IN x.exact /\ x.int % g = 0

\* the ratio check of line 134 left out
RatioAny(b) == TRUE

\* line 134: b < 1 or b % 1 == 0
RatioOk(b) == RLt(b, IntRat(1)) \/ RIsInt(b)

AdjustBlockCompatibility(ws, bs, gs) ==
    IF ~(Len(ws) = Len(bs) /\ Len(bs) = Len(gs))
    THEN Raised("AssertionError", 132)
    ELSE IF ~(\A i \in DOMAIN ws : ws[i] > 0 /\ bs[i].n > 0 /\ gs[i] > 0)
    THEN Raised("AssertionError", 133)
    ELSE IF ~(\A i \in DOMAIN bs : RatioOk(bs[i]))
    THEN Raised("AssertionError", 134)
    ELSE LET vs == [i \in DOMAIN ws |-> BottleneckWidth(ws[i], bs[i])]
             gs2 == [i \in DOMAIN ws |-> GroupWidth(gs[i], vs[i])]
             ms == [i \in DOMAIN ws |-> Modulus(gs2[i], bs[i])]
             vs2 == [i \in DOMAIN ws |-> RoundToModulus(vs[i], ms[i])]
             ws2 == [i \in DOMAIN ws |-> StageWidth(vs2[i], bs[i])]
         IN  IF ~(\A i \in DOMAIN ws : Compatible(ws2[i], bs[i], gs2[i]))
             THEN Raised("AssertionError", 140)
             ELSE Returned([ws |-> ws2, bs |-> bs, gs |-> gs2])

-----------------------------------------------------------------------------
(* generate_regnet (regnet.py 154-169) and generate_regnet_full (172-179). *)

DefaultQ == 8

RReduce(n, d) == LET g == Gcd(n, d) IN Rat(n \div g, d \div g)

\* block indices counted from 1 instead of 0
ContWidthFromOne(i, w_a, w_0) == RReduce((i + 1) * w_a.n + w_0 * w_a.d, w_a.d)

\* ws_cont[i] = i * w_a + w_0
ContWidth(i, w_a, w_0) == RReduce(i * w_a.n + w_0 * w_a.d, w_a.d)

\* Natural numbers beyond 32 bits, as little-endian sequences of digits to the
\* base 10000 without leading zeros: the powers of w_m do not fit an integer.
RECURSIVE BigNat(_)
BigNat(i) == IF i = 0 THEN <<>> ELSE <<i % 10000>> \o BigNat(i \div 10000)

\* a * s + carry for a small factor s
RECURSIVE BigMulAdd(_, _, _)
BigMulAdd(a, s, carry) ==
    IF a = <<>> THEN BigNat(carry)
    ELSE LET t == Head(a) * s + carry
         IN  <<t % 10000>> \o BigMulAdd(Tail(a), s, t \div 10000)

BigMul(a, s) == IF s = 0 THEN <<>> ELSE BigMulAdd(a, s, 0)

BigLess(a, b) ==
    \/ Len(a) < Len(b)
    \/ /\ Len(a) = Len(b)
       /\ \E i \in DOMAIN a : a[i] < b[i] /\ \A j \in (i + 1)..Len(a) : a[j] = b[j]

\* np.round(np.log(x) / np.log(m)) for x >= 1 and m > 1, searched upwards from
\* k with l = x.n^2 * m.d^(2k+1) and r = m.n^(2k+1) * x.d^2:
\*   log(x) / log(m) < k + 1/2  iff  x^2 < m^(2k+1)  iff  l < r,
\* and l = r is the tie log(x) / log(m) = k + 1/2, which rounds to the even
\* neighbour.
RECURSIVE QuantLevelFrom(_, _, _, _)
QuantLevelFrom(l, r, m, k) ==
    IF BigLess(l, r) THEN k
    ELSE IF l = r THEN (IF k % 2 = 0 THEN k ELSE k + 1)
    ELSE QuantLevelFrom(BigMul(BigMul(l, m.d), m.d), BigMul(BigMul(r, m.n), m.n), m, k + 1)

\* ks[i] = np.round(np.log(ws_cont[i] / w_0) / np.log(w_m))
QuantLevel(wc, w_0, w_m) ==
    LET x == RReduce(wc.n, wc.d * w_0)
    IN  QuantLevelFrom(BigMul(BigMul(BigMul(BigNat(1), x.n), x.n), w_m.d),
                       BigMul(BigMul(BigMul(BigNat(1), x.d), x.d), w_m.n),
                       w_m, 0)

\* the width divided, not multiplied, by w_m^k
QuantWidthInverted(w_0, w_m, k, q) ==
    RoundHalfEven(w_0 * Pow(w_m.d, k), Pow(w_m.n, k) * q) * q

\* the width of level k rounded to an integer, not to a multiple of q
QuantWidthUnquantized(w_0, w_m, k, q) ==
    RoundHalfEven(w_0 * Pow(w_m.n, k), Pow(w_m.d, k))

\* ws_all[i] = np.round(w_0 * w_m^k / q).astype(int) * q
QuantWidth(w_0, w_m, k, q) ==
    RoundHalfEven(w_0 * Pow(w_m.n, k), Pow(w_m.d, k) * q) * q

\* the distinct values in descending order
RECURSIVE SortedSeqDescending(_)
SortedSeqDescending(S) ==
    IF S = {} THEN <<>>
    ELSE LET m == CHOOSE x \in S : \A y \in S : x >= y
         IN  <<m>> \o SortedSeqDescending(S \ {m})

RECURSIVE SortedSeq(_)
SortedSeq(S) ==
    IF S = {} THEN <<>>
    ELSE LET m == CHOOSE x \in S : \A y \in S : x <= y
         IN  <<m>> \o SortedSeq(S \ {m})

\* every distinct value counted once
CountOnce(s, x) == 1

Count(s, x) == Cardinality({i \in DOMAIN s : s[i] = x})

\* np.unique(a, return_counts=True): the sorted distinct values, and how
\* often each occurs
Unique(a) ==
    LET u == SortedSeq(Range(a))
    IN  [values |-> u, counts |-> [j \in DOMAIN u |-> Count(a, u[j])]]

\* the least level instead of the greatest
SeqMin(s) == CHOOSE x \in Range(s) : \A y \in Range(s) : x <= y

\* ks.max()
SeqMax(s) == CHOOSE x \in Range(s) : \A y \in Range(s) : y <= x

\* the assertion of line 156 without its quantum conjunct
DesignSpaceOkNoQuantum(w_a, w_0, w_m, q) ==
    w_a.n >= 0 /\ w_0 > 0 /\ RLt(IntRat(1), w_m)

\* line 156: w_a >= 0 and w_0 > 0 and w_m > 1 and w_0 % q == 0
DesignSpaceOk(w_a, w_0, w_m, q) ==
    w_a.n >= 0 /\ w_0 > 0 /\ RLt(IntRat(1), w_m) /\ w_0 % q = 0

GenerateRegnet(w_a, w_0, w_m, d, q) ==
    IF ~DesignSpaceOk(w_a, w_0, w_m, q)
    THEN Raised("AssertionError", 156)
    ELSE LET n == Max(d, 0)     \* np.arange(d) is empty for d <= 0
             ws_cont == [i \in 1..n |-> ContWidth(i - 1, w_a, w_0)]
             ks == [i \in 1..n |-> QuantLevel(ws_cont[i], w_0, w_m)]
             ws_all == [i \in 1..n |-> QuantWidth(w_0, w_m, ks[i], q)]
             u == Unique(ws_all)
         IN  IF n = 0
             THEN Raised("ValueError", 166)      \* ks.max() of an empty array
             ELSE Returned([ws |-> u.values, ds |-> u.counts,
                            num_stages |-> Len(u.values),
                            total_stages |-> SeqMax(ks) + 1,
                            ws_all |-> ws_all, ws_cont |-> ws_cont])

\* lines 178-179: the adjusted widths and groups replace the generated ones
FullAdjusted(ds, ss, a) ==
    IF a.status = "raised" THEN a
    ELSE Returned([ws |-> a.value.ws, ds |-> ds, ss |-> ss,
                   bs |-> a.value.bs, gs |-> a.value.gs])

\* lines 174-178 given the result g of generate_regnet: stride, bot_mul and
\* group_w are broadcast over the stages
FullSchedule(g, s, bot_mul, group_w) ==
    IF g.status = "raised" THEN g
    ELSE FullAdjusted(g.value.ds, [i \in DOMAIN g.value.ws |-> s],
                      AdjustBlockCompatibility(g.value.ws,
                                               [i \in DOMAIN g.value.ws |-> bot_mul],
                                               [i \in DOMAIN g.value.ws |-> group_w]))

GenerateRegnetFull(w_a, w_0, w_m, d, s, bot_mul, group_w) ==
    FullSchedule(GenerateRegnet(w_a, w_0, w_m, d, DefaultQ), s, bot_mul, group_w)

-----------------------------------------------------------------------------
(* Block and stem vocabulary (regnet.py 370-392) and the structural nodes. *)

\* get_stem_fun
GetStemFun(stem_type) ==
    CASE stem_type = "res_stem_cifar" -> Returned("ResStemCifar")
      [] stem_type = "res_stem_in" -> Returned("ResStem")
      [] stem_type = "simple_stem_in" -> Returned("SimpleStem")
      [] OTHER -> Raised("AssertionError", 378)

\* a lookup that falls back to the tag itself instead of asserting
GetBlockFunDefault(block_type) == Returned(block_type)

\* get_block_fun
GetBlockFun(block_type) ==
    CASE block_type = "vanilla_block" -> Returned("VanillaBlock")
      [] block_type = "res_basic_block" -> Returned("ResBasicBlock")
      [] block_type = "res_bottleneck_block" -> Returned("ResBottleneckBlock")
      [] block_type = "res_bottleneck_linear_block" -> Returned("ResBottleneckLinearBlock")
      [] OTHER -> Raised("AssertionError", 391)

\* stem_fun(3, p["stem_w"], bn_eps, bn_mom)
StemNode(fun, win, wout) ==
    [node |-> "stem", kind |-> fun, w_in |-> win, w_out |-> wout]

\* AnyStage(prev_w, w, s, d, block_fun, params, bn_eps, bn_mom), once its
\* blocks are built
StageNode(win, wout, st, d, s) ==
    [node |-> "stage", w_in |-> win, w_out |-> wout, stride |-> st, d |-> d, stage |-> s]

\* AnyHead(w_in, head_width, num_classes, bn_eps, bn_mom): the optional 1x1
\* conv to head_width, and the width the classifier reads
HeadNode(win, head_width, num_classes) ==
    [node |-> "head", w_in |-> win, head_width |-> head_width,
     has_conv |-> head_width > 0,
     fc_in |-> IF head_width > 0 THEN head_width ELSE win,
     num_classes |-> num_classes]

\* AnyNet.anynet_get_params
AnynetGetParams(depths, stem_type, stem_w, block_type, widths, strides, bot_muls, group_ws, head_w, num_classes) ==
    LET nones == [i \in DOMAIN depths |-> "None"]
    IN  [stem_type |-> stem_type, stem_w |-> stem_w, block_type |-> block_type,
         depths |-> depths, widths |-> widths, strides |-> strides,
         bot_muls |-> IF bot_muls # <<>> THEN bot_muls ELSE nones,
         group_ws |-> IF group_ws # <<>> THEN group_ws ELSE nones,
         head_w |-> head_w, se_r |-> Rat(0, 1), num_classes |-> num_classes]

\* zip(*[p[k] for k in keys]) stops at the shortest list
NumStages(q) ==
    Min(Len(q.depths), Min(Len(q.widths), Min(Len(q.strides),
        Min(Len(q.bot_muls), Len(q.group_ws)))))

\* params = {"bot_mul": b, "group_w": g, "se_r": p["se_r"]}
StageParams(q, s) ==
    [bot_mul |-> q.bot_muls[s], group_w |-> q.group_ws[s], se_r |-> q.se_r]

-----------------------------------------------------------------------------
(* Complexity rules (regnet.py 56-95) over cx = (h, w, flops, params, acts) *)
(* and the layers the helpers of lines 14-50 build.                        *)

\* a size rule that rounds down: n // stride
DownsampleFloor(n, st) == n \div st

\* line 60 / 78: (n - 1) // stride + 1
Downsample(n, st) == (n - 1) \div st + 1

\* a conv2d_cx that counts multiply-adds over the input size
ConvCxInputSize(cx, win, wout, k, st, groups, bias) ==
    LET h == Downsample(cx.h, st)
        w == Downsample(cx.w, st)
    IN  [h |-> h, w |-> w,
         flops |-> cx.flops + (k * k * win * wout * cx.h * cx.w) \div groups
                            + (IF bias THEN wout * cx.h * cx.w ELSE 0),
         params |-> cx.params + (k * k * win * wout) \div groups
                              + (IF bias THEN wout ELSE 0),
         acts |-> cx.acts + wout * h * w]

\* conv2d_cx lines 59-64, past the assertion
ConvCx(cx, win, wout, k, st, groups, bias) ==
    LET h == Downsample(cx.h, st)
        w == Downsample(cx.w, st)
    IN  [h |-> h, w |-> w,
         flops |-> cx.flops + (k * k * win * wout * h * w) \div groups
                            + (IF bias THEN wout * h * w ELSE 0),
         params |-> cx.params + (k * k * win * wout) \div groups
                              + (IF bias THEN wout ELSE 0),
         acts |-> cx.acts + wout * h * w]

\* conv2d_cx
Conv2dCx(cx, win, wout, k, st, groups, bias) ==
    IF k % 2 # 1 THEN Raised("AssertionError", 58)
    ELSE Returned(ConvCx(cx, win, wout, k, st, groups, bias))

\* a norm2d_cx that also counts the normalised activations
Norm2dCxCountingActs(cx, win) ==
    [h |-> cx.h, w |-> cx.w, flops |-> cx.flops, params |-> cx.params + 2 * win,
     acts |-> cx.acts + win * cx.h * cx.w]

\* norm2d_cx
Norm2dCx(cx, win) ==
    [h |-> cx.h, w |-> cx.w, flops |-> cx.flops, params |-> cx.params + 2 * win,
     acts |-> cx.acts]

\* pool2d_cx lines 77-80, past the assertion
PoolCx(cx, win, k, st) ==
    LET h == Downsample(cx.h, st)
        w == Downsample(cx.w, st)
    IN  [h |-> h, w |-> w, flops |-> cx.flops, params |-> cx.params,
         acts |-> cx.acts + win * h * w]

\* pool2d_cx
Pool2dCx(cx, win, k, st) ==
    IF k % 2 # 1 THEN Raised("AssertionError", 76)
    ELSE Returned(PoolCx(cx, win, k, st))

\* gap2d_cx
Gap2dCx(cx, win) ==
    [h |-> 1, w |-> 1, flops |-> cx.flops, params |-> cx.params, acts |-> cx.acts]

\* linear_cx
LinearCx(cx, win, wout, bias, num_locations) ==
    [h |-> cx.h, w |-> cx.w,
     flops |-> cx.flops + win * wout * num_locations
                        + (IF bias THEN wout * num_locations ELSE 0),
     params |-> cx.params + win * wout + (IF bias THEN wout ELSE 0),
     acts |-> cx.acts + wout * num_locations]

\* SE.complexity: the size is saved, the rules of the gate applied, the size
\* restored
SEComplexity(cx, win, wse) ==
    LET c1 == Gap2dCx(cx, win)
        c2 == ConvCx(c1, win, wse, 1, 1, 1, TRUE)
        c3 == ConvCx(c2, wse, win, 1, 1, 1, TRUE)
    IN  [c3 EXCEPT !.h = cx.h, !.w = cx.w]

\* ResStemCifar.complexity
ResStemCifarComplexity(cx, win, wout) ==
    Norm2dCx(ConvCx(cx, win, wout, 3, 1, 1, FALSE), wout)

\* ResStem.complexity
ResStemComplexity(cx, win, wout) ==
    PoolCx(Norm2dCx(ConvCx(cx, win, wout, 7, 2, 1, FALSE), wout), wout, 3, 2)

\* AnyHead.complexity
AnyHeadComplexity(cx, win, head_width, num_classes) ==
    LET c1 == IF head_width > 0
              THEN Norm2dCx(ConvCx(cx, win, head_width, 1, 1, 1, FALSE), head_width)
              ELSE cx
        w1 == IF head_width > 0 THEN head_width ELSE win
    IN  LinearCx(Gap2dCx(c1, w1), w1, num_classes, TRUE, 1)

\* the classes of the file that define a complexity method, with the number
\* of arguments it takes
ComplexityArity ==
    [SE |-> 3, ResStemCifar |-> 3, ResStem |-> 3, AnyStage |-> 7, AnyHead |-> 4]

HasComplexity(class) == class \in DOMAIN ComplexityArity

\* stem_fun.complexity(cx, w_in, w_out) for a stem class
StemComplexity(class, cx, win, wout) ==
    CASE class = "ResStemCifar" -> Returned(ResStemCifarComplexity(cx, win, wout))
      [] class = "ResStem" -> Returned(ResStemComplexity(cx, win, wout))
      [] OTHER -> Raised("AttributeError", 233)   \* SimpleStem defines none

\* AnyStage.complexity: line 414 looks block_fun.complexity up and calls it
\* with 5 arguments, once per block
AnyStageComplexity(cx, win, wout, st, d, class, params) ==
    IF d <= 0 THEN Returned(cx)
    ELSE IF ~HasComplexity(class) THEN Raised("AttributeError", 414)
    ELSE Raised("TypeError", 414)      \* no rule of the file takes 5 arguments

\* AnyStage.__init__ lines 401-404: the (w_in, w_out, stride) of the d calls
\* of block_fun, in order
RECURSIVE AnyStageInitCalls(_, _, _, _)
AnyStageInitCalls(win, wout, st, d) ==
    IF d <= 0 THEN <<>>
    ELSE <<[w_in |-> win, w_out |-> wout, stride |-> st]>>
         \o AnyStageInitCalls(wout, wout, 1, d - 1)

\* AnyStage.complexity lines 413-415: the (w_in, w_out, stride) of the calls
\* of block_fun.complexity that are made before the loop ends or raises
RECURSIVE AnyStageComplexityCalls(_, _, _, _, _)
AnyStageComplexityCalls(win, wout, st, d, class) ==
    IF d <= 0 \/ ~HasComplexity(class) THEN <<>>
    ELSE <<[w_in |-> win, w_out |-> wout, stride |-> st]>>   \* raises TypeError

\* AnyHead.complexity lines 442-447: the rules applied, in order
AnyHeadComplexityRules(win, head_width, num_classes) ==
    LET w1 == IF head_width > 0 THEN head_width ELSE win
    IN  (IF head_width > 0
         THEN <<[rule |-> "conv2d_cx", w_in |-> win, w_out |-> head_width, k |-> 1,
                 stride |-> 1, groups |-> 1, bias |-> FALSE],
                [rule |-> "norm2d_cx", w_in |-> head_width]>>
         ELSE <<>>)
        \o <<[rule |-> "gap2d_cx", w_in |-> w1],
              [rule |-> "linear_cx", w_in |-> w1, w_out |-> num_classes, bias |-> TRUE,
               num_locations |-> 1]>>

\* the call r of a cost rule or complexity method on the state cx
CostRuleResult(cx, r) ==
    CASE r.rule = "conv2d_cx" ->
             Conv2dCx(cx, r.w_in, r.w_out, r.k, r.stride, r.groups, r.bias)
      [] r.rule = "norm2d_cx" -> Returned(Norm2dCx(cx, r.w_in))
      [] r.rule = "pool2d_cx" -> Pool2dCx(cx, r.w_in, r.k, r.stride)
      [] r.rule = "gap2d_cx" -> Returned(Gap2dCx(cx, r.w_in))
      [] r.rule = "linear_cx" ->
             Returned(LinearCx(cx, r.w_in, r.w_out, r.bias, r.num_locations))
      [] r.rule = "SE.complexity" -> Returned(SEComplexity(cx, r.w_in, r.w_se))
      [] r.rule = "stem.complexity" -> StemComplexity(r.class, cx, r.w_in, r.w_out)
      [] r.rule = "AnyHead.complexity" ->
             Returned(AnyHeadComplexity(cx, r.w_in, r.head_width, r.num_classes))
      [] r.rule = "AnyStage.complexity" ->
             AnyStageComplexity(cx, r.w_in, r.w_out, r.stride, r.d, r.block_fun, r.params)

\* conv2d(w_in, w_out, k, stride, groups, bias): nn.Conv2d with pad_mode 'pad'
Conv2dLayer(win, wout, k, st, groups, bias) ==
    [layer |-> "conv", w_in |-> win, w_out |-> wout, k |-> k, stride |-> st,
     padding |-> (k - 1) \div 2, groups |-> groups, bias |-> bias]

\* norm2d, activation
Norm2dLayer(win) == [layer |-> "bn", w_in |-> win]
ActivationLayer == [layer |-> "relu"]

\* a pool2d that leaves the padding out
Pool2dLayersUnpadded(win, k, st) ==
    <<[layer |-> "maxpool", k |-> k, stride |-> st]>>

\* pool2d: nn.Pad by (k - 1) // 2 on both sides, then a 'valid' nn.MaxPool2d
Pool2dLayers(win, k, st) ==
    <<[layer |-> "pad", padding |-> (k - 1) \div 2],
      [layer |-> "maxpool", k |-> k, stride |-> st]>>

\* gap2d, linear
Gap2dLayer(win) == [layer |-> "gap", w_in |-> win]
LinearLayer(win, wout, bias) == [layer |-> "dense", w_in |-> win, w_out |-> wout, bias |-> bias]

\* ResStemCifar: __init__ and the order of construct
ResStemCifarLayers(win, wout) ==
    <<Conv2dLayer(win, wout, 3, 1, 1, FALSE), Norm2dLayer(wout), ActivationLayer>>

\* ResStem
ResStemLayers(win, wout) ==
    <<Conv2dLayer(win, wout, 7, 2, 1, FALSE), Norm2dLayer(wout), ActivationLayer>>
    \o Pool2dLayers(wout, 3, 2)

\* SimpleStem
SimpleStemLayers(win, wout) ==
    <<Conv2dLayer(win, wout, 3, 2, 1, FALSE), Norm2dLayer(wout), ActivationLayer>>

\* SE: avg_pool, then f_ex; construct multiplies x by the result
SEGateLayers(win, wse) ==
    <<Gap2dLayer(win), Conv2dLayer(win, wse, 1, 1, 1, TRUE), ActivationLayer,
      Conv2dLayer(wse, win, 1, 1, 1, TRUE), [layer |-> "sigmoid"]>>

\* AnyHead up to the pooling; view and fc follow on the flattened tensor
AnyHeadLayers(win, head_width) ==
    (IF head_width > 0
     THEN <<Conv2dLayer(win, head_width, 1, 1, 1, FALSE), Norm2dLayer(head_width),
            ActivationLayer>>
     ELSE <<>>)
    \o <<Gap2dLayer(IF head_width > 0 THEN head_width ELSE win)>>

\* the spatial size a layer makes of size n
LayerOutSize(l, n) ==
    CASE l.layer = "conv" -> (n + 2 * l.padding - l.k) \div l.stride + 1
      [] l.layer = "pad" -> n + 2 * l.padding
      [] l.layer = "maxpool" -> (n - l.k) \div l.stride + 1
      [] l.layer = "gap" -> 1
      [] OTHER -> n

\* the size after a sequence of layers
RECURSIVE OutSize(_, _)
OutSize(layers, n) ==
    IF layers = <<>> THEN n
    ELSE OutSize(Tail(layers), LayerOutSize(Head(layers), n))

\* SE.construct: x * f_ex(avg_pool(x)), the gate broadcast over x
SEOutSize(win, wse, n) ==
    LET gate == OutSize(SEGateLayers(win, wse), n)
    IN  IF gate = 1 \/ gate = n THEN n ELSE -1

\* a BottleneckTransform that gates whenever se_r is positive, with a squeeze
\* width of at least 1
BottleneckTransformGateOnRatio(win, wout, st, params) ==
    LET w_b == RoundHalfEven(wout * params.bot_mul.n, params.bot_mul.d)
        w_se == Max(1, RoundHalfEven(win * params.se_r.n, params.se_r.d))
        groups == w_b \div params.group_w
    IN  [w_b |-> w_b, w_se |-> w_se, groups |-> groups,
         a |-> Conv2dLayer(win, w_b, 1, 1, 1, FALSE),
         b |-> Conv2dLayer(w_b, w_b, 3, st, groups, FALSE),
         se |-> IF params.se_r.n > 0 THEN [node |-> "SE", w_in |-> w_b, w_se |-> w_se,
                                           layers |-> SEGateLayers(w_b, w_se)]
                ELSE [node |-> "None"],
         c |-> Conv2dLayer(w_b, wout, 1, 1, 1, FALSE)]

\* BottleneckTransform.__init__ lines 314-326: the widths, the group count and
\* the optional gate; bot_mul and se_r are fractions whose products with a
\* width are exact in binary64
BottleneckTransformInit(win, wout, st, params) ==
    LET w_b == RoundHalfEven(wout * params.bot_mul.n, params.bot_mul.d)
        w_se == RoundHalfEven(win * params.se_r.n, params.se_r.d)
        groups == w_b \div params.group_w
    IN  [w_b |-> w_b, w_se |-> w_se, groups |-> groups,
         a |-> Conv2dLayer(win, w_b, 1, 1, 1, FALSE),
         b |-> Conv2dLayer(w_b, w_b, 3, st, groups, FALSE),
         se |-> IF w_se # 0 THEN [node |-> "SE", w_in |-> w_b, w_se |-> w_se,
                                  layers |-> SEGateLayers(w_b, w_se)]
                ELSE [node |-> "None"],
         c |-> Conv2dLayer(w_b, wout, 1, 1, 1, FALSE)]

\* BasicTransform.__init__ (also the two convolutions of VanillaBlock)
BasicTransformInit(win, wout, st) ==
    [a |-> Conv2dLayer(win, wout, 3, st, 1, FALSE),
     b |-> Conv2dLayer(wout, wout, 3, 1, 1, FALSE)]

\* a shortcut that projects only when the widths differ
ProjectionShortcutOnWidth(win, wout, st) ==
    IF win # wout
    THEN [kind |-> "projection", proj |-> Conv2dLayer(win, wout, 1, st, 1, FALSE),
          bn |-> Norm2dLayer(wout)]
    ELSE [kind |-> "identity"]

\* ResBasicBlock lines 295-298 and ResBottleneckBlock lines 344-347: proj and
\* bn stay None unless the widths differ or the stride is not 1
ProjectionShortcut(win, wout, st) ==
    IF win # wout \/ st # 1
    THEN [kind |-> "projection", proj |-> Conv2dLayer(win, wout, 1, st, 1, FALSE),
          bn |-> Norm2dLayer(wout)]
    ELSE [kind |-> "identity"]

\* ResBottleneckLinearBlock line 362: has_skip, and no proj attribute at all
LinearShortcut(win, wout, st) ==
    [kind |-> IF win = wout /\ st = 1 THEN "skip" ELSE "none"]

\* the shortcut path a block class builds
BlockShortcut(class, win, wout, st) ==
    CASE class \in {"ResBasicBlock", "ResBottleneckBlock"} -> ProjectionShortcut(win, wout, st)
      [] class = "ResBottleneckLinearBlock" -> LinearShortcut(win, wout, st)
      [] OTHER -> [kind |-> "none"]          \* VanillaBlock has no residual path

\* the transform a block class builds
BlockTransform(class, win, wout, st, params) ==
    IF class \in {"ResBottleneckBlock", "ResBottleneckLinearBlock"}
    THEN BottleneckTransformInit(win, wout, st, params)
    ELSE BasicTransformInit(win, wout, st)

\* block_fun(w_in, w_out, stride, params, bn_eps, bn_mom), block i of stage s
BlockNode(fun, win, wout, st, params, s, i) ==
    [node |-> "block", kind |-> fun, w_in |-> win, w_out |-> wout, stride |-> st,
     params |-> params, stage |-> s, index |-> i,
     shortcut |-> BlockShortcut(fun, win, wout, st),
     f |-> BlockTransform(fun, win, wout, st, params)]

-----------------------------------------------------------------------------
(* The calls of the model: the entry points and their arguments.           *)

\* direct calls of adjust_block_compatibility: per-stage values
Widths == (-1..MaxWidth) \cup {14, 60}
Ratios == {Rat(-1, 2), Rat(0, 1), Rat(1, 4), Rat(1, 3), Rat(1, 2), Rat(11, 20),
           Rat(9, 14), Rat(3, 4), Rat(1, 1), Rat(3, 2), Rat(2, 1), Rat(3, 1)}
Groups == (0..MaxGroup) \cup {8}
StageDomain == [w : Widths, b : Ratios, g : Groups]
RefStages == {[w |-> 24, b |-> Rat(1, 1), g |-> 8], [w |-> 6, b |-> Rat(1, 2), g |-> 2]}

\* stage lists of up to MaxStages stages: one stage ranges over StageDomain,
\* the others over RefStages
StageLists ==
    {<<>>} \cup
    UNION {{[r EXCEPT ![j] = x] : j \in 1..n, x \in StageDomain, r \in [1..n -> RefStages]}
           : n \in 1..MaxStages}

Rep(x, n) == [i \in 1..n |-> x]

AdjustArgs ==
    {[ws |-> [i \in DOMAIN l |-> l[i].w], bs |-> [i \in DOMAIN l |-> l[i].b],
      gs |-> [i \in DOMAIN l |-> l[i].g]] : l \in StageLists}
    \cup
    {[ws |-> Rep(24, a), bs |-> Rep(Rat(1, 1), b), gs |-> Rep(8, c)]
       : a \in 0..MaxStages, b \in 0..MaxStages, c \in 0..MaxStages}

\* calls of generate_regnet and generate_regnet_full
Slopes == {Rat(-1, 1), Rat(0, 1), Rat(8, 1), Rat(25, 2), Rat(24, 1)}
InitWidths == {0, 8, 12, 24}
Mults == {Rat(1, 1), Rat(3, 2), Rat(2, 1), Rat(5, 2)}
Quanta == {4, 8}
Strides == {1, 2}
BotMuls == {Rat(0, 1), Rat(1, 4), Rat(1, 2), Rat(3, 4), Rat(1, 1), Rat(3, 2), Rat(2, 1)}
GroupWs == {0, 1, 8, 12, 16, 24}

\* regnet200mf (line 538): RegNet(36.44, 24, 2.49, 13, 2, 1.0, 8, 'simple_stem_in',
\* 32, 'res_bottleneck_block', 0, 1000, ...)
Regnet200mfArgs ==
    [w_a |-> Rat(911, 25), w_0 |-> 24, w_m |-> Rat(249, 100), d |-> 13, stride |-> 2,
     bot_mul |-> Rat(1, 1), group_w |-> 8, stem_type |-> "simple_stem_in", stem_w |-> 32,
     block_type |-> "res_bottleneck_block", head_w |-> 0, num_classes |-> 1000]

PresetGenArgs ==
    [w_a |-> Regnet200mfArgs.w_a, w_0 |-> Regnet200mfArgs.w_0, w_m |-> Regnet200mfArgs.w_m,
     d |-> Regnet200mfArgs.d, q |-> DefaultQ]

PresetFullArgs ==
    [w_a |-> Regnet200mfArgs.w_a, w_0 |-> Regnet200mfArgs.w_0, w_m |-> Regnet200mfArgs.w_m,
     d |-> Regnet200mfArgs.d, stride |-> Regnet200mfArgs.stride,
     bot_mul |-> Regnet200mfArgs.bot_mul, group_w |-> Regnet200mfArgs.group_w]

GenArgs ==
    [w_a : Slopes, w_0 : InitWidths, w_m : Mults, d : 0..MaxD, q : Quanta]
    \cup {PresetGenArgs}

FullArgs ==
    [w_a : Slopes, w_0 : InitWidths, w_m : Mults, d : 0..MaxD,
     stride : Strides, bot_mul : BotMuls, group_w : GroupWs]
    \cup {PresetFullArgs}

\* constructor calls
StemTypes == {"res_stem_cifar", "res_stem_in", "simple_stem_in", "bogus"}
BlockTypes == {"vanilla_block", "res_basic_block", "res_bottleneck_block",
               "res_bottleneck_linear_block", "bogus"}
HeadWidths == {0, 64}

RegNetArgs ==
    [w_a : {Rat(-1, 1), Rat(8, 1)}, w_0 : {8, 12}, w_m : {Rat(1, 1), Rat(3, 2)},
     d : 0..MaxD, stride : {2}, bot_mul : {Rat(1, 4), Rat(3, 4), Rat(1, 1), Rat(2, 1)},
     group_w : {8, 12, 16}, stem_type : StemTypes, stem_w : {32},
     block_type : BlockTypes, head_w : HeadWidths, num_classes : {1000}]
    \cup {Regnet200mfArgs}

\* the stages of a direct AnyNet call
NetStages == {[d |-> 1, w |-> 8, s |-> 1], [d |-> 2, w |-> 16, s |-> 2],
              [d |-> 3, w |-> 24, s |-> 2], [d |-> 2, w |-> 8, s |-> 1]}
NetSchedules == UNION {[1..n -> NetStages] : n \in 0..MaxStages}

AnyNetArgs ==
    {[depths |-> [i \in DOMAIN l |-> l[i].d], widths |-> [i \in DOMAIN l |-> l[i].w],
      strides |-> [i \in DOMAIN l |-> l[i].s],
      bot_muls |-> [i \in DOMAIN l |-> Rat(1, 1)], group_ws |-> [i \in DOMAIN l |-> 8],
      stem_type |-> st, stem_w |-> 8, block_type |-> bt, head_w |-> hw,
      num_classes |-> 1000]
       : l \in NetSchedules, st \in StemTypes, bt \in BlockTypes, hw \in HeadWidths}

\* calls of the complexity rules
Counters == {<<0, 0, 0>>, <<7, 5, 3>>}
CxStates ==
    {[h |-> h, w |-> w, flops |-> c[1], params |-> c[2], acts |-> c[3]]
       : h \in 1..MaxRes, w \in 1..MaxRes, c \in Counters}
ConvArgs == [cx : CxStates, w_in : {1, 3, 8}, w_out : {2, 8}, k : {1, 2, 3, 7}, stride : {1, 2, 3}, groups : {1, 2, 3}, bias : BOOLEAN]
NormArgs == [cx : CxStates, w_in : {1, 8}]
PoolArgs == [cx : CxStates, w_in : {1, 8}, k : {1, 2, 3}, stride : {1, 2, 3}]
GapArgs == [cx : CxStates, w_in : {8}]
LinearArgs == [cx : CxStates, w_in : {8}, w_out : {10}, bias : BOOLEAN, num_locations : {1, 2}]
SEArgs == [cx : CxStates, w_in : {8, 16}, w_se : {2, 4}]
StemClasses == {"ResStemCifar", "ResStem", "SimpleStem"}
BlockClasses == {"VanillaBlock", "ResBasicBlock", "ResBottleneckBlock", "ResBottleneckLinearBlock"}
StemCxArgs == [cx : CxStates, class : StemClasses, w_in : {3}, w_out : {8, 32}]
HeadCxArgs == [cx : CxStates, w_in : {8}, head_width : HeadWidths, num_classes : {10}]
BlockParams == [bot_mul : {Rat(1, 2), Rat(1, 1)}, group_w : {1, 4, 8}, se_r : {Rat(0, 1), Rat(1, 8), Rat(1, 4), Rat(1, 2), Rat(1, 1)}]
StageCxArgs == [cx : CxStates, w_in : {8}, w_out : {16}, stride : {2}, d : 0..2, block_fun : BlockClasses, params : {[bot_mul |-> Rat(1, 1), group_w |-> 8, se_r |-> Rat(0, 1)]}]

\* direct constructions of a BottleneckTransform
TransformArgs == [w_in : {1, 2, 3, 8, 16}, w_out : {8, 16}, stride : Strides, params : BlockParams]

\* the rules of a cost traversal: positive widths, strides and groups >= 1
CostRules ==
    {[rule |-> "conv2d_cx", w_in |-> 3, w_out |-> 8, k |-> 3, stride |-> 2, groups |-> 1, bias |-> FALSE],
     [rule |-> "conv2d_cx", w_in |-> 8, w_out |-> 8, k |-> 3, stride |-> 3, groups |-> 2, bias |-> TRUE],
     [rule |-> "conv2d_cx", w_in |-> 8, w_out |-> 8, k |-> 2, stride |-> 1, groups |-> 1, bias |-> FALSE],
     [rule |-> "norm2d_cx", w_in |-> 8],
     [rule |-> "pool2d_cx", w_in |-> 8, k |-> 3, stride |-> 2],
     [rule |-> "gap2d_cx", w_in |-> 8],
     [rule |-> "linear_cx", w_in |-> 8, w_out |-> 10, bias |-> TRUE, num_locations |-> 1],
     [rule |-> "SE.complexity", w_in |-> 8, w_se |-> 2],
     [rule |-> "stem.complexity", class |-> "ResStem", w_in |-> 3, w_out |-> 8],
     [rule |-> "stem.complexity", class |-> "SimpleStem", w_in |-> 3, w_out |-> 8],
     [rule |-> "AnyHead.complexity", w_in |-> 8, head_width |-> 64, num_classes |-> 10],
     [rule |-> "AnyStage.complexity", w_in |-> 8, w_out |-> 16, stride |-> 2, d |-> 1,
      block_fun |-> "ResBottleneckBlock",
      params |-> [bot_mul |-> Rat(1, 1), group_w |-> 8, se_r |-> Rat(0, 1)]]}

\* the states a cost traversal starts from
TraversalArgs ==
    {[cx |-> [h |-> h, w |-> w, flops |-> 0, params |-> 0, acts |-> 0]]
       : h \in {1, 5, MaxRes}, w \in {1, 5, MaxRes}}

Pending == [status |-> "pending"]
NoParams == [status |-> "unset"]

\* the state at the call of entry point o with arguments from A
InitCall(o, A) ==
    /\ op = o
    /\ args \in A
    /\ pc = "call"
    /\ ret = Pending
    /\ p = NoParams
    /\ stem_fun = "None"
    /\ block_fun = "None"
    /\ prev_w = 0
    /\ si = 0
    /\ bi = 0
    /\ w_in = 0
    /\ stride = 0
    /\ built = <<>>
    /\ rules = <<>>

Init ==
    \/ InitCall("adjust_block_compatibility", AdjustArgs)
    \/ InitCall("generate_regnet", GenArgs)
    \/ InitCall("generate_regnet_full", FullArgs)
    \/ InitCall("RegNet", RegNetArgs)
    \/ InitCall("AnyNet", AnyNetArgs)
    \/ InitCall("conv2d_cx", ConvArgs)
    \/ InitCall("norm2d_cx", NormArgs)
    \/ InitCall("pool2d_cx", PoolArgs)
    \/ InitCall("gap2d_cx", GapArgs)
    \/ InitCall("linear_cx", LinearArgs)
    \/ InitCall("SE.complexity", SEArgs)
    \/ InitCall("stem.complexity", StemCxArgs)
    \/ InitCall("AnyHead.complexity", HeadCxArgs)
    \/ InitCall("AnyStage.complexity", StageCxArgs)
    \/ InitCall("BottleneckTransform", TransformArgs)
    \/ InitCall("cost traversal", TraversalArgs)

build_vars == <<p, stem_fun, block_fun, prev_w, si, bi, w_in, stride, built>>

-----------------------------------------------------------------------------
(* The pure entry points: one call, one result.                            *)

CallAdjust ==
    /\ pc = "call" /\ op = "adjust_block_compatibility"
    /\ ret' = AdjustBlockCompatibility(args.ws, args.bs, args.gs)
    /\ pc' = "done"
    /\ UNCHANGED <<op, args, build_vars, rules>>

\* adjust_block_compatibility called again on the lists it returned; args
\* keeps the arguments of the first call beside those of the second
CallAdjustAgain ==
    /\ pc = "done" /\ op = "adjust_block_compatibility" /\ ret.status = "returned"
    /\ args' = [ws |-> ret.value.ws, bs |-> ret.value.bs, gs |-> ret.value.gs,
                first |-> args]
    /\ ret' = AdjustBlockCompatibility(ret.value.ws, ret.value.bs, ret.value.gs)
    /\ pc' = "again"
    /\ UNCHANGED <<op, build_vars, rules>>

CallGenerate ==
    /\ pc = "call" /\ op = "generate_regnet"
    /\ ret' = GenerateRegnet(args.w_a, args.w_0, args.w_m, args.d, args.q)
    /\ pc' = "done"
    /\ UNCHANGED <<op, args, build_vars, rules>>

CallGenerateFull ==
    /\ pc = "call" /\ op = "generate_regnet_full"
    /\ ret' = GenerateRegnetFull(args.w_a, args.w_0, args.w_m, args.d, args.stride,
                                 args.bot_mul, args.group_w)
    /\ pc' = "done"
    /\ UNCHANGED <<op, args, build_vars, rules>>

-----------------------------------------------------------------------------
(* RegNet.__init__ (520-526) and AnyNet.__init__ (472-488), with           *)
(* AnyStage.__init__ (398-404) as the inner loop.                          *)

\* parameters that keep the requested group width instead of the adjusted
\* ones
RegnetParamsRequestedGroups(a, r) ==
    IF r.status = "raised" THEN r
    ELSE Returned([stem_type |-> a.stem_type, stem_w |-> a.stem_w,
                   block_type |-> a.block_type, depths |-> r.value.ds,
                   widths |-> r.value.ws, strides |-> r.value.ss,
                   bot_muls |-> r.value.bs,
                   group_ws |-> [i \in DOMAIN r.value.gs |-> a.group_w],
                   head_w |-> a.head_w, se_r |-> Rat(0, 1), num_classes |-> a.num_classes])

\* RegNet.regnet_get_params lines 506-518, given the schedule r of line 505
RegnetParamsFrom(a, r) ==
    IF r.status = "raised" THEN r
    ELSE Returned([stem_type |-> a.stem_type, stem_w |-> a.stem_w,
                   block_type |-> a.block_type, depths |-> r.value.ds,
                   widths |-> r.value.ws, strides |-> r.value.ss,
                   bot_muls |-> r.value.bs, group_ws |-> r.value.gs,
                   head_w |-> a.head_w, se_r |-> Rat(0, 1), num_classes |-> a.num_classes])

\* RegNet.regnet_get_params (502-518)
RegnetGetParams(a) ==
    RegnetParamsFrom(a, GenerateRegnetFull(a.w_a, a.w_0, a.w_m, a.d, a.stride,
                                           a.bot_mul, a.group_w))

\* RegNet.__init__ line 522: the schedule is computed first
RegNetParams ==
    /\ pc = "call" /\ op = "RegNet"
    /\ LET r == RegnetGetParams(args)
       IN  IF r.status = "raised"
           THEN ret' = r /\ pc' = "done" /\ p' = p
           ELSE ret' = ret /\ pc' = "anynet" /\ p' = r.value
    /\ UNCHANGED <<op, args, stem_fun, block_fun, prev_w, si, bi, w_in, stride, built, rules>>

\* AnyNet.__init__ line 475, called directly or through super().__init__
AnyNetParams ==
    /\ \/ pc = "call" /\ op = "AnyNet"
       \/ pc = "anynet" /\ op = "RegNet"
    /\ LET a == IF op = "RegNet" THEN p ELSE args
       IN  p' = AnynetGetParams(a.depths, a.stem_type, a.stem_w, a.block_type, a.widths,
                                a.strides, a.bot_muls, a.group_ws, a.head_w, a.num_classes)
    /\ pc' = "get_stem"
    /\ UNCHANGED <<op, args, ret, stem_fun, block_fun, prev_w, si, bi, w_in, stride, built, rules>>

\* line 477
ResolveStem ==
    /\ pc = "get_stem"
    /\ LET r == GetStemFun(p.stem_type)
       IN  IF r.status = "raised"
           THEN ret' = r /\ pc' = "done" /\ stem_fun' = stem_fun
           ELSE ret' = ret /\ pc' = "get_block" /\ stem_fun' = r.value
    /\ UNCHANGED <<op, args, p, block_fun, prev_w, si, bi, w_in, stride, built, rules>>

\* line 478
ResolveBlock ==
    /\ pc = "get_block"
    /\ LET r == GetBlockFun(p.block_type)
       IN  IF r.status = "raised"
           THEN ret' = r /\ pc' = "done" /\ block_fun' = block_fun
           ELSE ret' = ret /\ pc' = "stem" /\ block_fun' = r.value
    /\ UNCHANGED <<op, args, p, stem_fun, prev_w, si, bi, w_in, stride, built, rules>>

\* lines 479-482
BuildStem ==
    /\ pc = "stem"
    /\ built' = Append(built, StemNode(stem_fun, 3, p.stem_w))
    /\ prev_w' = p.stem_w
    /\ si' = 1
    /\ pc' = "stages"
    /\ UNCHANGED <<op, args, ret, p, stem_fun, block_fun, bi, w_in, stride, rules>>

\* lines 483-485: the next stage of the schedule; AnyStage.__init__ starts
\* with w_in = prev_w and the stage's stride
EnterStage ==
    /\ pc = "stages" /\ si <= NumStages(p)
    /\ w_in' = prev_w
    /\ stride' = p.strides[si]
    /\ bi' = 0
    /\ pc' = "blocks"
    /\ UNCHANGED <<op, args, ret, p, stem_fun, block_fun, prev_w, si, built, rules>>

\* the block loop without the reset of line 404
BuildBlockKeepStride ==
    /\ pc = "blocks" /\ bi < p.depths[si]
    /\ built' = Append(built, BlockNode(block_fun, w_in, p.widths[si], stride,
                                        StageParams(p, si), si, bi))
    /\ bi' = bi + 1
    /\ UNCHANGED <<op, args, pc, ret, p, stem_fun, block_fun, prev_w, si, w_in, stride, rules>>

\* AnyStage.__init__ lines 401-404: one iteration of the block loop
BuildBlock ==
    /\ pc = "blocks" /\ bi < p.depths[si]
    /\ built' = Append(built, BlockNode(block_fun, w_in, p.widths[si], stride,
                                        StageParams(p, si), si, bi))
    /\ stride' = 1
    /\ w_in' = p.widths[si]
    /\ bi' = bi + 1
    /\ UNCHANGED <<op, args, pc, ret, p, stem_fun, block_fun, prev_w, si, rules>>

\* lines 485-487: the stage is complete, appended, and prev_w = w
FinishStage ==
    /\ pc = "blocks" /\ bi >= p.depths[si]
    /\ built' = Append(built, StageNode(prev_w, p.widths[si], p.strides[si],
                                        p.depths[si], si))
    /\ prev_w' = p.widths[si]
    /\ si' = si + 1
    /\ pc' = "stages"
    /\ UNCHANGED <<op, args, ret, p, stem_fun, block_fun, bi, w_in, stride, rules>>

\* line 488: the head, then the constructor returns
BuildHead ==
    /\ pc = "stages" /\ si > NumStages(p)
    /\ built' = Append(built, HeadNode(prev_w, p.head_w, p.num_classes))
    /\ ret' = Returned(op)
    /\ pc' = "done"
    /\ UNCHANGED <<op, args, p, stem_fun, block_fun, prev_w, si, bi, w_in, stride, rules>>

-----------------------------------------------------------------------------
(* Calls of the complexity rules and of BottleneckTransform.                *)

CallConv2dCx ==
    /\ pc = "call" /\ op = "conv2d_cx"
    /\ ret' = Conv2dCx(args.cx, args.w_in, args.w_out, args.k, args.stride, args.groups, args.bias)
    /\ pc' = "done"
    /\ UNCHANGED <<op, args, build_vars, rules>>

CallNorm2dCx ==
    /\ pc = "call" /\ op = "norm2d_cx"
    /\ ret' = Returned(Norm2dCx(args.cx, args.w_in))
    /\ pc' = "done"
    /\ UNCHANGED <<op, args, build_vars, rules>>

CallPool2dCx ==
    /\ pc = "call" /\ op = "pool2d_cx"
    /\ ret' = Pool2dCx(args.cx, args.w_in, args.k, args.stride)
    /\ pc' = "done"
    /\ UNCHANGED <<op, args, build_vars, rules>>

CallGap2dCx ==
    /\ pc = "call" /\ op = "gap2d_cx"
    /\ ret' = Returned(Gap2dCx(args.cx, args.w_in))
    /\ pc' = "done"
    /\ UNCHANGED <<op, args, build_vars, rules>>

CallLinearCx ==
    /\ pc = "call" /\ op = "linear_cx"
    /\ ret' = Returned(LinearCx(args.cx, args.w_in, args.w_out, args.bias, args.num_locations))
    /\ pc' = "done"
    /\ UNCHANGED <<op, args, build_vars, rules>>

CallSEComplexity ==
    /\ pc = "call" /\ op = "SE.complexity"
    /\ ret' = Returned(SEComplexity(args.cx, args.w_in, args.w_se))
    /\ pc' = "done"
    /\ UNCHANGED <<op, args, build_vars, rules>>

CallStemComplexity ==
    /\ pc = "call" /\ op = "stem.complexity"
    /\ ret' = StemComplexity(args.class, args.cx, args.w_in, args.w_out)
    /\ pc' = "done"
    /\ UNCHANGED <<op, args, build_vars, rules>>

\* rules records the rules the traversal applies
CallHeadComplexity ==
    /\ pc = "call" /\ op = "AnyHead.complexity"
    /\ ret' = Returned(AnyHeadComplexity(args.cx, args.w_in, args.head_width, args.num_classes))
    /\ rules' = AnyHeadComplexityRules(args.w_in, args.head_width, args.num_classes)
    /\ pc' = "done"
    /\ UNCHANGED <<op, args, build_vars>>

\* rules records the calls of the block rule the traversal makes
CallStageComplexity ==
    /\ pc = "call" /\ op = "AnyStage.complexity"
    /\ ret' = AnyStageComplexity(args.cx, args.w_in, args.w_out, args.stride, args.d, args.block_fun, args.params)
    /\ rules' = AnyStageComplexityCalls(args.w_in, args.w_out, args.stride, args.d, args.block_fun)
    /\ pc' = "done"
    /\ UNCHANGED <<op, args, build_vars>>

CallBottleneckTransform ==
    /\ pc = "call" /\ op = "BottleneckTransform"
    /\ ret' = Returned(BottleneckTransformInit(args.w_in, args.w_out, args.stride, args.params))
    /\ pc' = "done"
    /\ UNCHANGED <<op, args, build_vars, rules>>

\* a cost traversal: the state is handed from one rule to the next (cx =
\* rule_cx(cx, ...)); an exception ends it. ret holds the current state and
\* rules the rules applied so far.
ApplyCostRule ==
    /\ pc = "call" /\ op = "cost traversal"
    /\ Len(rules) < MaxRules
    /\ \E r \in CostRules :
          LET cx == IF ret.status = "pending" THEN args.cx ELSE ret.value
              res == CostRuleResult(cx, r)
          IN  /\ ret' = res
              /\ rules' = Append(rules, r)
              /\ pc' = IF res.status = "raised" THEN "done" ELSE "call"
    /\ UNCHANGED <<op, args, build_vars>>

Next ==
    \/ CallAdjust
    \/ CallAdjustAgain
    \/ CallGenerate
    \/ CallGenerateFull
    \/ RegNetParams
    \/ AnyNetParams
    \/ ResolveStem
    \/ ResolveBlock
    \/ BuildStem
    \/ EnterStage
    \/ BuildBlock
    \/ FinishStage
    \/ BuildHead
    \/ CallConv2dCx
    \/ CallNorm2dCx
    \/ CallPool2dCx
    \/ CallGap2dCx
    \/ CallLinearCx
    \/ CallSEComplexity
    \/ CallStemComplexity
    \/ CallHeadComplexity
    \/ CallStageComplexity
    \/ CallBottleneckTransform
    \/ ApplyCostRule

Spec == Init /\ [][Next]_vars

-----------------------------------------------------------------------------
(* Properties.                                                             *)

AdjustDone == op = "adjust_block_compatibility" /\ pc = "done"
GenerateDone == op = "generate_regnet" /\ pc = "done"
FullDone == op = "generate_regnet_full" /\ pc = "done"
IsReturned == ret.status = "returned"
IsRaised == ret.status = "raised"
RaisedAt(line) == ret.status = "raised" /\ ret.line = line

\* the documented precondition of adjust_block_compatibility, in exact
\* arithmetic: equal lengths, everything positive, ratios < 1 or integral
AdjustPrecondition(a) ==
    /\ Len(a.ws) = Len(a.bs) /\ Len(a.bs) = Len(a.gs)
    /\ \A i \in DOMAIN a.ws : a.ws[i] > 0 /\ a.bs[i].n > 0 /\ a.gs[i] > 0
    /\ \A i \in DOMAIN a.bs : a.bs[i].n < a.bs[i].d \/ a.bs[i].n % a.bs[i].d = 0

\* (w * b) mod g = 0 in exact arithmetic, b = n/d
Divides(w, b, g) == (w * b.n) % (b.d * g) = 0

\* C1: every call of adjust_block_compatibility whose input meets the
\* precondition returns normally; the assertion of line 140 never fires.
C1_ValidInputReturns ==
    (AdjustDone /\ AdjustPrecondition(args)) => IsReturned

\* C2: whenever adjust_block_compatibility or generate_regnet_full returns,
\* every stage has (width * ratio) mod group_width = 0 for the returned widths,
\* ratios and group widths.
C2_ReturnedStagesCompatible ==
    ((AdjustDone \/ FullDone) /\ IsReturned) =>
        \A i \in DOMAIN ret.value.ws :
            /\ ret.value.gs[i] > 0
            /\ Divides(ret.value.ws[i], ret.value.bs[i], ret.value.gs[i])

\* C2 witness: a call that returned after changing a width and a group width
C2_Witness ==
    /\ AdjustDone /\ IsReturned
    /\ \E i \in DOMAIN args.ws :
          /\ ret.value.ws[i] # args.ws[i]
          /\ ret.value.gs[i] # args.gs[i]
          /\ args.bs[i].n < args.bs[i].d

\* C2 witness for generate_regnet_full: a schedule returned with a reduced
\* group width
C2_FullWitness ==
    /\ FullDone /\ IsReturned
    /\ \E i \in DOMAIN ret.value.gs : ret.value.gs[i] < args.group_w

NonDecreasing(s) == \A i \in 1..(Len(s) - 1) : s[i] <= s[i + 1]
StrictlyIncreasing(s) == \A i \in 1..(Len(s) - 1) : s[i] < s[i + 1]

\* the blocks of a schedule, stage after stage: width ws[j] repeated ds[j] times
RECURSIVE Expand(_, _)
Expand(ws, ds) ==
    IF ws = <<>> THEN <<>>
    ELSE [i \in 1..Head(ds) |-> Head(ws)] \o Expand(Tail(ws), Tail(ds))

\* the argument conditions of the width generator, written out
GenArgsValid(a, q) ==
    a.w_a.n >= 0 /\ a.w_0 > 0 /\ a.w_m.n > a.w_m.d /\ a.w_0 % q = 0

\* C3: for valid parameters with d > 0, generate_regnet's per-block widths
\* ws_all never decrease with the block index, the stage widths ws strictly
\* increase, and the stages are the maximal runs of equal width in ws_all.
C3_WidthsMonotone ==
    (GenerateDone /\ GenArgsValid(args, args.q) /\ args.d > 0) =>
        /\ IsReturned
        /\ Len(ret.value.ws_all) = args.d
        /\ NonDecreasing(ret.value.ws_all)
        /\ StrictlyIncreasing(ret.value.ws)
        /\ Expand(ret.value.ws, ret.value.ds) = ret.value.ws_all

\* C3 witness: three or more stages, one of them a run of several blocks
C3_Witness ==
    /\ GenerateDone /\ IsReturned
    /\ Len(ret.value.ws) >= 3
    /\ \E j \in DOMAIN ret.value.ds : ret.value.ds[j] >= 2

\* C4: the depths returned by generate_regnet sum to d, each is at least 1,
\* and ws, ds have num_stages entries; generate_regnet_full returns the same
\* depths, so they sum to d as well.
C4_DepthsSumToD ==
    /\ (GenerateDone /\ IsReturned) =>
          /\ SumSeq(ret.value.ds) = args.d
          /\ \A j \in DOMAIN ret.value.ds : ret.value.ds[j] >= 1
          /\ Len(ret.value.ws) = ret.value.num_stages
          /\ Len(ret.value.ds) = ret.value.num_stages
    /\ (FullDone /\ IsReturned) =>
          /\ ret.value.ds =
                 GenerateRegnet(args.w_a, args.w_0, args.w_m, args.d, DefaultQ).value.ds
          /\ SumSeq(ret.value.ds) = args.d
          /\ Len(ret.value.ws) = Len(ret.value.ds)

\* C4 witness: a full schedule of several stages with unequal depths
C4_Witness ==
    /\ FullDone /\ IsReturned
    /\ Len(ret.value.ds) >= 2
    /\ \E i, j \in DOMAIN ret.value.ds : ret.value.ds[i] # ret.value.ds[j]
    /\ args.d = MaxD

\* C5 as stated: the widths of the schedule returned by generate_regnet_full
\* strictly increase from stage to stage.
C5_FullWidthsStrictlyIncreasing ==
    (FullDone /\ IsReturned) => StrictlyIncreasing(ret.value.ws)

\* C5 as the code has it: the widths of the schedule returned by
\* generate_regnet_full never decrease from stage to stage; the adjustment may
\* leave two neighbouring stages with the same width.
C5_FullWidthsNonDecreasing ==
    (FullDone /\ IsReturned) =>
        /\ NonDecreasing(ret.value.ws)
        /\ Len(ret.value.ws) =
               Len(GenerateRegnet(args.w_a, args.w_0, args.w_m, args.d, DefaultQ).value.ws)

\* C5 witness: a returned schedule in which two neighbouring stages share a
\* width
C5_Witness ==
    /\ FullDone /\ IsReturned
    /\ \E i \in 1..(Len(ret.value.ws) - 1) : ret.value.ws[i] = ret.value.ws[i + 1]

\* input that is compatible as it stands: ratios integral or below 1, and
\* w * b a positive multiple of g
AlreadyCompatible(a) ==
    /\ AdjustPrecondition(a)
    /\ \A i \in DOMAIN a.ws : Divides(a.ws[i], a.bs[i], a.gs[i])

\* C6: on input that is already compatible, adjust_block_compatibility
\* returns widths, ratios and group widths equal to its input.
C6_NoOpOnCompatible ==
    (AdjustDone /\ AlreadyCompatible(args)) =>
        /\ IsReturned
        /\ ret.value = [ws |-> args.ws, bs |-> args.bs, gs |-> args.gs]

KnownStems == {"res_stem_cifar", "res_stem_in", "simple_stem_in"}
KnownBlocks == {"vanilla_block", "res_basic_block", "res_bottleneck_block",
                "res_bottleneck_linear_block"}
Constructing == op \in {"AnyNet", "RegNet"}
UnknownKind(a) == a.stem_type \notin KnownStems \/ a.block_type \notin KnownBlocks

\* C7: a constructor call with an unknown stem or block kind never builds a
\* node and never returns a network; a direct AnyNet call ends with the
\* assertion of get_stem_fun or get_block_fun. No node is ever built before
\* both lookups have succeeded.
C7_UnknownKindBuildsNothing ==
    /\ (Constructing /\ UnknownKind(args)) =>
          /\ built = <<>>
          /\ ~IsReturned
          /\ pc = "done" => IsRaised
          /\ (pc = "done" /\ op = "AnyNet") => (RaisedAt(378) \/ RaisedAt(391))
    /\ built # <<>> => (stem_fun # "None" /\ block_fun # "None")

\* C7 witness: an AnyNet call with a known stem and an unknown block kind has
\* ended in get_block_fun's assertion
C7_Witness ==
    /\ op = "AnyNet" /\ pc = "done"
    /\ args.stem_type \in KnownStems /\ args.block_type \notin KnownBlocks
    /\ Len(args.depths) >= 1
    /\ RaisedAt(391)

\* C8 as stated: generate_regnet raises exactly when w_a < 0, w_0 <= 0,
\* w_m <= 1 or w_0 mod q # 0, and returns for every other input.
C8_RejectsExactlyInvalid ==
    GenerateDone => (IsRaised <=> ~GenArgsValid(args, args.q))

\* C8 as the code has it: generate_regnet raises the assertion of line 156
\* exactly when w_a < 0, w_0 <= 0, w_m <= 1 or w_0 mod q # 0; of the other
\* inputs it returns those with d >= 1 and raises ValueError (line 166) on
\* those with d <= 0. A RegNet call whose schedule is rejected ends with
\* nothing built.
C8_RejectsInvalidOrEmpty ==
    /\ GenerateDone =>
          /\ RaisedAt(156) <=> ~GenArgsValid(args, args.q)
          /\ (GenArgsValid(args, args.q) /\ args.d >= 1) => IsReturned
          /\ (GenArgsValid(args, args.q) /\ args.d <= 0) => RaisedAt(166)
    /\ (op = "RegNet" /\ pc = "done" /\ ~GenArgsValid(args, DefaultQ)) =>
          (RaisedAt(156) /\ built = <<>>)
    /\ (op = "RegNet" /\ built # <<>>) => (GenArgsValid(args, DefaultQ) /\ args.d >= 1)

\* C8 witness: a RegNet call rejected for a w_0 that is no multiple of the
\* quantum
C8_Witness ==
    /\ op = "RegNet" /\ pc = "done"
    /\ args.w_0 % DefaultQ # 0 /\ args.w_a.n >= 0 /\ args.w_m.n > args.w_m.d
    /\ args.d >= 1 /\ ~UnknownKind(args)
    /\ RaisedAt(156) /\ built = <<>>

\* C8 witness for the generator itself: valid parameters, no block
C8_EmptyDepthWitness ==
    GenerateDone /\ GenArgsValid(args, args.q) /\ args.d = 0 /\ RaisedAt(166)

\* C9: adjust_block_compatibility raises at one of its three argument
\* assertions (lines 132-134) exactly when the lists differ in length, or a
\* width, ratio or group width is <= 0, or a ratio is >= 1 and not an integer;
\* ratios in (0, 1) and the ratio 1 pass them.
C9_PreconditionRejects ==
    AdjustDone =>
        /\ (RaisedAt(132) \/ RaisedAt(133) \/ RaisedAt(134)) <=> ~AdjustPrecondition(args)
        /\ RaisedAt(132) <=> ~(Len(args.ws) = Len(args.bs) /\ Len(args.bs) = Len(args.gs))

\* C9 witness: a list of positive values rejected for a ratio of 3/2
C9_Witness ==
    /\ AdjustDone /\ RaisedAt(134)
    /\ \E i \in DOMAIN args.bs : args.bs[i] = Rat(3, 2)

\* C9 witness: ratios of 1 and below 1 in one accepted list
C9_AcceptWitness ==
    /\ AdjustDone /\ IsReturned
    /\ \E i, j \in DOMAIN args.bs : args.bs[i] = Rat(1, 1) /\ args.bs[j] = Rat(1, 2)

\* width entering stage s of schedule q
PrevWidth(q, s) == IF s = 1 THEN q.stem_w ELSE q.widths[s - 1]

\* what the schedule prescribes for block i of stage s
ExpectedBlock(q, s, i) ==
    LET win == IF i = 0 THEN PrevWidth(q, s) ELSE q.widths[s]
        st == IF i = 0 THEN q.strides[s] ELSE 1
        params == [bot_mul |-> q.bot_muls[s], group_w |-> q.group_ws[s], se_r |-> Rat(0, 1)]
    IN  [node |-> "block", kind |-> block_fun,
         w_in |-> win, w_out |-> q.widths[s], stride |-> st, params |-> params,
         stage |-> s, index |-> i,
         shortcut |-> BlockShortcut(block_fun, win, q.widths[s], st),
         f |-> BlockTransform(block_fun, win, q.widths[s], st, params)]

ExpectedStage(q, s) ==
    [i \in 1..Max(q.depths[s], 0) |-> ExpectedBlock(q, s, i - 1)]
    \o <<[node |-> "stage", w_in |-> PrevWidth(q, s), w_out |-> q.widths[s],
          stride |-> q.strides[s], d |-> q.depths[s], stage |-> s]>>

RECURSIVE ExpectedStages(_, _)
ExpectedStages(q, s) ==
    IF s > Len(q.depths) THEN <<>>
    ELSE ExpectedStage(q, s) \o ExpectedStages(q, s + 1)

\* stem, then the stages in schedule order, then the head
ExpectedBuild(q) ==
    <<[node |-> "stem", kind |-> stem_fun, w_in |-> 3, w_out |-> q.stem_w]>>
    \o ExpectedStages(q, 1)
    \o <<[node |-> "head", w_in |-> PrevWidth(q, Len(q.depths) + 1),
          head_width |-> q.head_w, has_conv |-> q.head_w > 0,
          fc_in |-> IF q.head_w > 0 THEN q.head_w ELSE PrevWidth(q, Len(q.depths) + 1),
          num_classes |-> q.num_classes]>>

IsPrefix(s, t) == Len(s) <= Len(t) /\ \A i \in DOMAIN s : s[i] = t[i]

\* C10: the nodes are built in the order stem, stages of the schedule, head;
\* each stage builds exactly d blocks in order, block 0 with the stage's
\* stride and the previous stage's width (the stem width for the first stage)
\* as width_in, every later block with stride 1 and width_in = width_out = the
\* stage width; the head's width_in is the last stage's width.
C10_BuildFollowsSchedule ==
    (Constructing /\ built # <<>>) =>
        /\ IsPrefix(built, ExpectedBuild(p))
        /\ IsReturned => built = ExpectedBuild(p)
        /\ op = "AnyNet" =>
              /\ p.depths = args.depths /\ p.widths = args.widths
              /\ p.strides = args.strides /\ p.stem_w = args.stem_w

\* C10 witness: a finished AnyNet of two stages, the second of two blocks
\* entered with stride 2 from a narrower first stage
C10_Witness ==
    /\ op = "AnyNet" /\ pc = "done" /\ IsReturned
    /\ Len(args.depths) = 2
    /\ args.depths[1] = 1
    /\ args.depths[2] = 2 /\ args.strides[2] = 2
    /\ args.widths[1] # args.widths[2]
    /\ \E k \in DOMAIN built : built[k].node = "block" /\ built[k].index = 1

Done(o) == op = o /\ pc = "done"

\* C11: for every input resolution, the (h, w) a complexity rule yields is the
\* output size of the layers the corresponding helper or class builds: for
\* conv2d_cx and pool2d_cx the size after the convolution and the padded
\* pooling, for ResStemCifar, ResStem and AnyHead the size after their layers
\* in construct order, for SE the unchanged input size.
C11_CostShapeMatchesLayers ==
    /\ (Done("conv2d_cx") /\ IsReturned) =>
          LET l == Conv2dLayer(args.w_in, args.w_out, args.k, args.stride, args.groups, args.bias)
          IN  /\ ret.value.h = LayerOutSize(l, args.cx.h)
              /\ ret.value.w = LayerOutSize(l, args.cx.w)
    /\ (Done("pool2d_cx") /\ IsReturned) =>
          /\ ret.value.h = OutSize(Pool2dLayers(args.w_in, args.k, args.stride), args.cx.h)
          /\ ret.value.w = OutSize(Pool2dLayers(args.w_in, args.k, args.stride), args.cx.w)
    /\ (Done("stem.complexity") /\ args.class = "ResStemCifar") =>
          /\ IsReturned
          /\ ret.value.h = OutSize(ResStemCifarLayers(args.w_in, args.w_out), args.cx.h)
          /\ ret.value.w = OutSize(ResStemCifarLayers(args.w_in, args.w_out), args.cx.w)
    /\ (Done("stem.complexity") /\ args.class = "ResStem") =>
          /\ IsReturned
          /\ ret.value.h = OutSize(ResStemLayers(args.w_in, args.w_out), args.cx.h)
          /\ ret.value.w = OutSize(ResStemLayers(args.w_in, args.w_out), args.cx.w)
    /\ Done("SE.complexity") =>
          /\ ret.value.h = SEOutSize(args.w_in, args.w_se, args.cx.h)
          /\ ret.value.w = SEOutSize(args.w_in, args.w_se, args.cx.w)
          /\ ret.value.h = args.cx.h /\ ret.value.w = args.cx.w
    /\ Done("AnyHead.complexity") =>
          /\ ret.value.h = OutSize(AnyHeadLayers(args.w_in, args.head_width), args.cx.h)
          /\ ret.value.w = OutSize(AnyHeadLayers(args.w_in, args.head_width), args.cx.w)
          /\ ret.value.h = 1 /\ ret.value.w = 1

\* C11 witness: the ImageNet stem on a non-square input, reduced by the
\* stride-2 convolution and the stride-2 pooling
C11_Witness ==
    /\ Done("stem.complexity") /\ args.class = "ResStem" /\ IsReturned
    /\ args.cx.h = 8 /\ args.cx.w = 5
    /\ ret.value.h = 2 /\ ret.value.w = 2

\* C12: every stem class and every block class has a complexity rule, so a
\* call of a stem's rule and a cost traversal of a stage (AnyStage.complexity
\* calling block_fun.complexity for each block) always return a cost state.
C12_EveryPrimitiveHasRule ==
    /\ Done("stem.complexity") => IsReturned
    /\ Done("AnyStage.complexity") => IsReturned

\* C13 as stated: a BottleneckTransform has a squeeze-excite gate exactly when
\* params["se_r"] > 0.
C13_GateIffRatioPositive ==
    Done("BottleneckTransform") =>
        (ret.value.se.node = "SE" <=> args.params.se_r.n > 0)

\* C13 as the code has it: the gate is present exactly when the squeeze width
\* int(round(w_in * se_r)) is not 0, that is (for se_r >= 0) when
\* w_in * se_r > 1/2; so se_r = 0 gives no gate, a gate implies se_r > 0, and
\* a positive se_r with w_in * se_r <= 1/2 gives no gate either. A gate that
\* is present is SE(w_b, int(round(w_in * se_r))).
C13_GateIffSqueezeWidthNonzero ==
    Done("BottleneckTransform") =>
        LET r == args.params.se_r
            present == ret.value.se.node = "SE"
        IN  /\ present <=> 2 * args.w_in * r.n > r.d
            /\ r.n = 0 => ~present
            /\ present => r.n > 0
            /\ present =>
                  /\ ret.value.se.w_se >= 1
                  /\ 2 * r.d * ret.value.se.w_se <= 2 * args.w_in * r.n + r.d
                  /\ 2 * r.d * ret.value.se.w_se >= 2 * args.w_in * r.n - r.d
                  /\ ret.value.se.w_in = ret.value.w_b

\* C13 witness: a transform of input width 8 with se_r = 1/4 has a gate of
\* squeeze width 2
C13_Witness ==
    /\ Done("BottleneckTransform")
    /\ args.w_in = 8 /\ args.params.se_r = Rat(1, 4)
    /\ ret.value.se.node = "SE" /\ ret.value.se.w_se = 2

\* C13 witness: a positive se_r whose squeeze width rounds to 0
C13_NoGateWitness ==
    /\ Done("BottleneckTransform")
    /\ args.params.se_r.n > 0 /\ ret.value.se.node = "None"

\* C14: for w_0 = 24, w_a = 36.44, w_m = 2.49, d = 13, q = 8 generate_regnet
\* returns 4 stages of widths [24, 56, 152, 368] and depths [1, 1, 4, 7], and
\* generate_regnet_full with stride 2, bot_mul 1, group_w 8 returns the same
\* widths and depths with group widths [8, 8, 8, 8]; the regnet200mf
\* constructor call builds that schedule.
C14_Regnet200mfSchedule ==
    /\ (GenerateDone /\ args = PresetGenArgs) =>
          /\ IsReturned
          /\ ret.value.ws = <<24, 56, 152, 368>>
          /\ ret.value.ds = <<1, 1, 4, 7>>
          /\ ret.value.num_stages = 4
    /\ (FullDone /\ args = PresetFullArgs) =>
          /\ IsReturned
          /\ ret.value.ws = <<24, 56, 152, 368>>
          /\ ret.value.ds = <<1, 1, 4, 7>>
          /\ ret.value.gs = <<8, 8, 8, 8>>
          /\ ret.value.ss = <<2, 2, 2, 2>>
          /\ ret.value.bs = <<Rat(1, 1), Rat(1, 1), Rat(1, 1), Rat(1, 1)>>
    /\ (op = "RegNet" /\ args = Regnet200mfArgs /\ p # NoParams) =>
          /\ p.widths = <<24, 56, 152, 368>>
          /\ p.depths = <<1, 1, 4, 7>>
          /\ p.group_ws = <<8, 8, 8, 8>>

\* C14 witness: the preset's full schedule has been returned
C14_Witness ==
    /\ FullDone /\ args = PresetFullArgs /\ IsReturned
    /\ Len(ret.value.ws) = 4

PositiveMultiples(s, q) == \A i \in DOMAIN s : s[i] > 0 /\ s[i] % q = 0

\* C15 as stated: every per-block and per-stage width returned by
\* generate_regnet is a positive multiple of the quantum, and so is every
\* stage width returned by generate_regnet_full (quantum 8).
C15_AllWidthsMultiplesOfQuantum ==
    /\ (GenerateDone /\ IsReturned) =>
          (PositiveMultiples(ret.value.ws_all, args.q) /\ PositiveMultiples(ret.value.ws, args.q))
    /\ (FullDone /\ IsReturned) => PositiveMultiples(ret.value.ws, DefaultQ)

\* C15 as the code has it: the widths returned by generate_regnet are
\* positive multiples of q; the widths returned by generate_regnet_full are
\* positive, and multiples of 8 when bot_mul = 1 and group_w is a multiple of
\* 8, but the adjustment can move a width off the multiples of 8 otherwise.
C15_QuantumBeforeAdjustment ==
    /\ (GenerateDone /\ IsReturned) =>
          (PositiveMultiples(ret.value.ws_all, args.q) /\ PositiveMultiples(ret.value.ws, args.q))
    /\ (FullDone /\ IsReturned) =>
          /\ PositiveMultiples(ret.value.ws, 1)
          /\ (args.bot_mul = Rat(1, 1) /\ args.group_w % DefaultQ = 0) =>
                PositiveMultiples(ret.value.ws, DefaultQ)

\* C15 witness: a schedule with bot_mul = 1 and group_w = 16 in which the
\* adjustment moved a width to another multiple of 8
C15_Witness ==
    /\ FullDone /\ IsReturned
    /\ args.bot_mul = Rat(1, 1) /\ args.group_w = 16
    /\ ret.value.ws # GenerateRegnet(args.w_a, args.w_0, args.w_m, args.d, DefaultQ).value.ws

\* C17: in adjust_block_compatibility the bottleneck width of every stage of
\* a valid input is v = max(1, round(width * ratio)), width * ratio rounded to
\* the nearest integer; so the group width returned for the stage is
\* min(group_width, max(1, round(width * ratio))).
C17_BottleneckWidthRounded ==
    (AdjustDone /\ AdjustPrecondition(args)) =>
        \A i \in DOMAIN args.ws :
            LET v == Max(1, RoundHalfEven(args.ws[i] * args.bs[i].n, args.bs[i].d))
            IN  /\ BottleneckWidth(args.ws[i], args.bs[i]) = v
                /\ IsReturned => ret.value.gs[i] = Min(args.gs[i], v)

Abs(x) == IF x < 0 THEN -x ELSE x

\* m is the least positive common multiple of g and the integer b
LeastCommonMultiple(m, g, b) ==
    /\ m > 0 /\ m % g = 0 /\ m % b = 0
    /\ \A x \in 1..(m - 1) : ~(x % g = 0 /\ x % b = 0)

\* C18: for every stage of a valid input, with v the bottleneck width of line
\* 135: the group width is g' = min(group_width, v), so g' <= v; the modulus m
\* is lcm(g', ratio) for a ratio > 1 and g' otherwise; the adjusted bottleneck
\* width v' is a multiple of m, at least m, and within m/2 of v whenever
\* v >= m/2; a returned stage has group width g', and for an integer ratio
\* >= 1 its width' * ratio equals v'.
C18_GroupAndModulusRounding ==
    (AdjustDone /\ AdjustPrecondition(args)) =>
        \A i \in DOMAIN args.ws :
            LET b == args.bs[i]
                v == BottleneckWidth(args.ws[i], b)
                g == GroupWidth(args.gs[i], v)
                m == Modulus(g, b)
                v2 == RoundToModulus(v, m)
            IN  /\ g = Min(args.gs[i], v) /\ g <= v /\ g >= 1
                /\ IF b.n > b.d THEN LeastCommonMultiple(m, g, b.n \div b.d) ELSE m = g
                /\ v2 % m = 0 /\ v2 >= m
                /\ 2 * v >= m => 2 * Abs(v2 - v) <= m
                /\ IsReturned =>
                      /\ ret.value.gs[i] = g
                      /\ b.d = 1 => ret.value.ws[i] * b.n = v2

\* C18 witness: a returned stage with ratio 2 whose bottleneck width was
\* moved to the nearest multiple of lcm(g', 2)
C18_Witness ==
    /\ AdjustDone /\ IsReturned
    /\ \E i \in DOMAIN args.ws :
          /\ args.bs[i] = Rat(2, 1) /\ args.gs[i] = 3
          /\ ret.value.gs[i] = 3
          /\ ret.value.ws[i] # args.ws[i]

\* q = floor(a / b) for b > 0
IsFloorDiv(q, a, b) == q * b <= a /\ a < (q + 1) * b

\* C19: conv2d_cx rejects an even kernel size; otherwise it maps h to
\* floor((h - 1) / stride) + 1 and w likewise, adds
\* floor(k*k*w_in*w_out*h'*w' / groups) (plus w_out*h'*w' if biased) to the
\* multiply-adds with the new size h', w', and floor(k*k*w_in*w_out / groups)
\* (plus w_out if biased) to the parameters.
C19_ConvCostRule ==
    Done("conv2d_cx") =>
        IF args.k % 2 = 0 THEN RaisedAt(58)
        ELSE /\ IsReturned
             /\ LET c == args.cx
                    r == ret.value
                    kk == args.k * args.k * args.w_in * args.w_out
                    b == IF args.bias THEN 1 ELSE 0
                IN  /\ IsFloorDiv(r.h - 1, c.h - 1, args.stride)
                    /\ IsFloorDiv(r.w - 1, c.w - 1, args.stride)
                    /\ IsFloorDiv(r.flops - c.flops - b * args.w_out * r.h * r.w,
                                  kk * r.h * r.w, args.groups)
                    /\ IsFloorDiv(r.params - c.params - b * args.w_out, kk, args.groups)

\* C19 witness: a biased, grouped 3x3 convolution of stride 2 on an 8x5 input
\* with counters already running
C19_Witness ==
    /\ Done("conv2d_cx") /\ IsReturned
    /\ args.k = 3 /\ args.stride = 2 /\ args.groups = 2 /\ args.bias
    /\ args.cx.h = 8 /\ args.cx.w = 5 /\ args.cx.flops > 0
    /\ ret.value.h = 4 /\ ret.value.w = 3

\* C20: norm2d_cx adds 2 * channels to the parameters and changes nothing
\* else; gap2d_cx sets h = w = 1 and changes nothing else; pool2d_cx maps h
\* and w to floor((n - 1) / stride) + 1, adds channels * h' * w' to the
\* activations and leaves multiply-adds and parameters alone. Each call
\* returns a new state and leaves the state it was given as it was.
C20_NonConvRuleFrames ==
    [][(pc = "call" /\ pc' = "done"
           /\ op \in {"norm2d_cx", "gap2d_cx", "pool2d_cx"} /\ ret'.status = "returned") =>
          LET c == args.cx
              r == ret'.value
          IN  /\ args' = args
              /\ op = "norm2d_cx" =>
                    r = [h |-> c.h, w |-> c.w, flops |-> c.flops,
                         params |-> c.params + 2 * args.w_in, acts |-> c.acts]
              /\ op = "gap2d_cx" =>
                    r = [h |-> 1, w |-> 1, flops |-> c.flops, params |-> c.params,
                         acts |-> c.acts]
              /\ op = "pool2d_cx" =>
                    /\ IsFloorDiv(r.h - 1, c.h - 1, args.stride)
                    /\ IsFloorDiv(r.w - 1, c.w - 1, args.stride)
                    /\ r.acts = c.acts + args.w_in * r.h * r.w
                    /\ r.flops = c.flops /\ r.params = c.params]_vars

\* C20 witness: a stride-2 pooling of an 8x5 state with counters running
C20_Witness ==
    /\ Done("pool2d_cx") /\ IsReturned
    /\ args.stride = 2 /\ args.cx.h = 8 /\ args.cx.w = 5 /\ args.cx.params > 0
    /\ ret.value.h = 4 /\ ret.value.w = 3
    /\ ret.value.acts = args.cx.acts + args.w_in * 12

\* C20 witness: a normalisation has returned
C20_NormWitness ==
    /\ Done("norm2d_cx") /\ IsReturned
    /\ args.cx.acts > 0 /\ ret.value.params = args.cx.params + 2 * args.w_in

-----------------------------------------------------------------------------
\* the blocks built so far
Blocks == {built[k] : k \in {j \in DOMAIN built : built[j].node = "block"}}

ResidualKinds == {"ResBasicBlock", "ResBottleneckBlock"}

\* C21: res_basic_block and res_bottleneck_block carry a projection shortcut
\* (a 1x1 convolution with the block's stride, then a normalisation) exactly
\* when w_in differs from w_out or the stride is not 1, and an identity
\* shortcut otherwise; res_bottleneck_linear_block has a skip exactly when
\* w_in = w_out and the stride is 1, and never a projection; so in a stage
\* only block 0 can carry a projection, and every later block has an identity
\* shortcut (a skip in the linear variant).
C21_ShortcutRule ==
    Constructing =>
        \A b \in Blocks :
            /\ b.kind \in ResidualKinds =>
                  /\ b.shortcut.kind \in {"projection", "identity"}
                  /\ b.shortcut.kind = "projection" <=> (b.w_in # b.w_out \/ b.stride # 1)
                  /\ b.shortcut.kind = "projection" =>
                        /\ b.shortcut.proj.k = 1
                        /\ b.shortcut.proj.stride = b.stride
                        /\ b.shortcut.proj.w_in = b.w_in
                        /\ b.shortcut.proj.w_out = b.w_out
                        /\ b.shortcut.bn = [layer |-> "bn", w_in |-> b.w_out]
                  /\ b.index >= 1 => b.shortcut.kind = "identity"
            /\ b.kind = "ResBottleneckLinearBlock" =>
                  /\ b.shortcut.kind \in {"skip", "none"}
                  /\ b.shortcut.kind = "skip" <=> (b.w_in = b.w_out /\ b.stride = 1)
                  /\ b.index >= 1 => b.shortcut.kind = "skip"

\* C21 witness: a finished network of residual bottleneck blocks in which a
\* block 0 of equal input and output width projects because of its stride,
\* and the block after it in the same stage has an identity shortcut
C21_Witness ==
    /\ Constructing /\ pc = "done" /\ IsReturned
    /\ \E b0, b1 \in Blocks :
          /\ b0.kind = "ResBottleneckBlock" /\ b1.kind = "ResBottleneckBlock"
          /\ b0.stage = b1.stage /\ b0.index = 0 /\ b1.index = 1
          /\ b0.w_in = b0.w_out /\ b0.stride = 2
          /\ b0.shortcut.kind = "projection" /\ b1.shortcut.kind = "identity"

\* C21 witness for the linear variant: block 0 without a skip, block 1 with
C21_LinearWitness ==
    /\ Constructing /\ pc = "done" /\ IsReturned
    /\ \E b0, b1 \in Blocks :
          /\ b0.kind = "ResBottleneckLinearBlock" /\ b1.kind = "ResBottleneckLinearBlock"
          /\ b0.stage = b1.stage /\ b0.index = 0 /\ b1.index = 1
          /\ b0.shortcut.kind = "none" /\ b1.shortcut.kind = "skip"

-----------------------------------------------------------------------------
\* the (w_in, w_out, stride) of the blocks built for stage s, in order
RECURSIVE StageBlockCalls(_, _)
StageBlockCalls(b, s) ==
    IF b = <<>> THEN <<>>
    ELSE (IF Head(b).node = "block" /\ Head(b).stage = s
          THEN <<[w_in |-> Head(b).w_in, w_out |-> Head(b).w_out, stride |-> Head(b).stride]>>
          ELSE <<>>) \o StageBlockCalls(Tail(b), s)

\* one cost rule applied to a state
ApplyRule(cx, r) ==
    CASE r.rule = "conv2d_cx" -> ConvCx(cx, r.w_in, r.w_out, r.k, r.stride, r.groups, r.bias)
      [] r.rule = "norm2d_cx" -> Norm2dCx(cx, r.w_in)
      [] r.rule = "gap2d_cx" -> Gap2dCx(cx, r.w_in)
      [] r.rule = "linear_cx" -> LinearCx(cx, r.w_in, r.w_out, r.bias, r.num_locations)

RECURSIVE ApplyRules(_, _)
ApplyRules(cx, rs) == IF rs = <<>> THEN cx ELSE ApplyRules(ApplyRule(cx, Head(rs)), Tail(rs))

\* the head half of the lock-step: conv + norm iff head_width > 0, then the
\* global pooling, then a biased linear rule reading the width AnyHead.__init__
\* gives its classifier; the returned state is these rules applied in order
HeadInLockStep ==
    Done("AnyHead.complexity") =>
        LET n == HeadNode(args.w_in, args.head_width, args.num_classes)
            m == Len(rules)
        IN  /\ IsReturned /\ ret.value = ApplyRules(args.cx, rules)
            /\ m = IF n.has_conv THEN 4 ELSE 2
            /\ n.has_conv <=> args.head_width > 0
            /\ n.has_conv =>
                  /\ rules[1].rule = "conv2d_cx" /\ rules[1].w_in = n.w_in
                  /\ rules[1].w_out = n.head_width /\ rules[1].k = 1
                  /\ rules[2].rule = "norm2d_cx" /\ rules[2].w_in = n.head_width
            /\ rules[m - 1].rule = "gap2d_cx" /\ rules[m - 1].w_in = n.fc_in
            /\ rules[m].rule = "linear_cx" /\ rules[m].w_in = n.fc_in
            /\ rules[m].w_out = n.num_classes /\ rules[m].bias

\* the stage half: the calls of the block rule are the calls of the block
\* constructor, d of them, in the same order
StageInLockStep ==
    /\ Done("AnyStage.complexity") =>
          rules = AnyStageInitCalls(args.w_in, args.w_out, args.stride, args.d)
    /\ Constructing =>
          \A k \in DOMAIN built :
              built[k].node = "stage" =>
                  StageBlockCalls(built, built[k].stage)
                      = AnyStageInitCalls(built[k].w_in, built[k].w_out,
                                          built[k].stride, built[k].d)

\* C22: the build and cost traversals stay in lock-step: AnyStage.complexity
\* calls the block cost rule with the same (w_in, w_out, stride) triples, in
\* the same order and the same number d of times, as AnyStage.__init__ calls
\* the block constructor; AnyHead.complexity applies conv + norm iff
\* head_width > 0, then the global pooling, then a biased linear rule with the
\* input width AnyHead.__init__ builds.
C22_TraversalsInLockStep == StageInLockStep /\ HeadInLockStep

-----------------------------------------------------------------------------
\* C23: for valid parameters with d > 0, the quantisation level of block 0
\* is 0 and the first stage's width is w_0 exactly; d = 1 yields the single
\* stage [w_0] of depth [1]; w_a = 0 yields the single stage of width w_0 and
\* depth d; the number of stages never exceeds total_stages = max(k) + 1.
C23_FirstStageIsInitialWidth ==
    (GenerateDone /\ GenArgsValid(args, args.q) /\ args.d > 0) =>
        /\ IsReturned
        /\ ret.value.ws_cont[1] = IntRat(args.w_0)
        /\ QuantLevel(ret.value.ws_cont[1], args.w_0, args.w_m) = 0
        /\ ret.value.ws_all[1] = args.w_0
        /\ ret.value.ws[1] = args.w_0
        /\ args.d = 1 =>
              /\ ret.value.ws = <<args.w_0>> /\ ret.value.ds = <<1>>
              /\ ret.value.num_stages = 1 /\ ret.value.total_stages = 1
        /\ args.w_a.n = 0 =>
              /\ ret.value.ws = <<args.w_0>> /\ ret.value.ds = <<args.d>>
              /\ ret.value.num_stages = 1 /\ ret.value.total_stages = 1
        /\ ret.value.num_stages = Len(ret.value.ws)
        /\ ret.value.num_stages <= ret.value.total_stages

\* C23 witness: several stages from a positive slope, fewer than the levels
\* allow, the first of width w_0
C23_Witness ==
    /\ GenerateDone /\ IsReturned
    /\ args.w_a.n > 0 /\ args.d >= 3
    /\ ret.value.num_stages >= 2
    /\ ret.value.num_stages < ret.value.total_stages
    /\ ret.value.ws[1] = args.w_0

\* C23 witness: a single block
C23_SingleBlockWitness ==
    /\ GenerateDone /\ IsReturned /\ args.d = 1 /\ args.w_a.n > 0
    /\ ret.value.ws = <<args.w_0>> /\ ret.value.ds = <<1>>

\* C23 witness: slope 0 and several blocks
C23_FlatWitness ==
    /\ GenerateDone /\ IsReturned /\ args.d >= 2 /\ args.w_a.n = 0
    /\ ret.value.ws = <<args.w_0>> /\ ret.value.ds = <<args.d>>

-----------------------------------------------------------------------------
AdjustedAgain == op = "adjust_block_compatibility" /\ pc = "again"

\* C24: adjust_block_compatibility is idempotent: called on the (ws, bs, gs)
\* it returned, it returns them unchanged.
C24_AdjustIdempotent ==
    AdjustedAgain =>
        /\ IsReturned
        /\ ret.value.ws = args.ws
        /\ ret.value.bs = args.bs
        /\ ret.value.gs = args.gs

\* C24 witness: a second call on two stages, after a first call that changed
\* the width and the group width of a stage with a ratio that is no dyadic
\* fraction
C24_Witness ==
    /\ AdjustedAgain /\ IsReturned
    /\ Len(args.ws) = 2
    /\ \E i \in DOMAIN args.ws :
          /\ args.ws[i] # args.first.ws[i]
          /\ args.gs[i] # args.first.gs[i]
          /\ ~IsPow2(args.bs[i].d)

-----------------------------------------------------------------------------
CostOps ==
    {"conv2d_cx", "norm2d_cx", "pool2d_cx", "gap2d_cx", "linear_cx", "SE.complexity",
     "stem.complexity", "AnyHead.complexity", "AnyStage.complexity"}

\* from state c to state r no counter decreases and the size neither grows
\* nor drops below 1
CostGrows(c, r) ==
    /\ r.flops >= c.flops /\ r.params >= c.params /\ r.acts >= c.acts
    /\ r.h <= c.h /\ r.w <= c.w /\ r.h >= 1 /\ r.w >= 1

\* the rules rs applied in order to the state cx
RECURSIVE Accumulate(_, _)
Accumulate(cx, rs) ==
    IF rs = <<>> THEN cx
    ELSE Accumulate(CostRuleResult(cx, Head(rs)).value, Tail(rs))

\* C25: across any sequence of cost rules applied to a state with h, w >= 1
\* and called with positive widths, stride >= 1 and groups >= 1, every rule
\* that returns leaves flops, params and acts no smaller and h and w no
\* larger and at least 1; the state at every point is the cumulative cost of
\* the rules applied so far.
C25_CostAccumulates ==
    [][/\ (op \in CostOps /\ pc = "call" /\ ret'.status = "returned") =>
             CostGrows(args.cx, ret'.value)
       /\ (op = "cost traversal" /\ ret'.status = "returned") =>
             /\ CostGrows(IF ret.status = "pending" THEN args.cx ELSE ret.value,
                           ret'.value)
             /\ CostGrows(args.cx, ret'.value)
             /\ ret'.value = Accumulate(args.cx, rules')
             /\ Len(rules') = Len(rules) + 1]_vars

\* C25 witness: three rules applied in turn, each adding to a counter, the
\* size shrinking from 8x5 to 1x1
C25_Witness ==
    /\ op = "cost traversal" /\ IsReturned
    /\ Len(rules) = 3
    /\ rules[1].rule = "conv2d_cx" /\ rules[2].rule = "pool2d_cx"
    /\ rules[3].rule = "AnyHead.complexity"
    /\ args.cx.h = 8 /\ args.cx.w = 5
    /\ ret.value.h = 1 /\ ret.value.w = 1
    /\ ret.value.flops > 0 /\ ret.value.params > 0 /\ ret.value.acts > 0

-----------------------------------------------------------------------------
BottleneckKinds == {"ResBottleneckBlock", "ResBottleneckLinearBlock"}

\* C26: in a RegNet, whose schedule comes from generate_regnet_full, every
\* bottleneck block's width w_b = round(w_out * bot_mul) is a positive exact
\* multiple of its stage's adjusted group width, so groups = w_b // group_w
\* is at least 1 and groups * group_w = w_b: the grouped 3x3 convolution has
\* no zero groups and no remainder channels.
C26_GroupedConvWellFormed ==
    (op = "RegNet" /\ built # <<>>) =>
        \A b \in Blocks :
            b.kind \in BottleneckKinds =>
                /\ b.w_out = p.widths[b.stage]
                /\ b.params.bot_mul = p.bot_muls[b.stage]
                /\ b.params.group_w = p.group_ws[b.stage]
                /\ b.params.group_w >= 1
                /\ b.f.w_b > 0
                /\ b.f.w_b * b.params.bot_mul.d = b.w_out * b.params.bot_mul.n
                /\ b.f.w_b % b.params.group_w = 0
                /\ b.f.groups >= 1
                /\ b.f.groups * b.params.group_w = b.f.w_b
                /\ b.f.b.groups = b.f.groups
                /\ b.f.b.w_in = b.f.w_b /\ b.f.b.w_out = b.f.w_b

\* C26 witness: a finished RegNet of bottleneck blocks whose group width was
\* adjusted away from the requested one, with a block of several groups
C26_Witness ==
    /\ op = "RegNet" /\ pc = "done" /\ IsReturned
    /\ \E b1, b2 \in Blocks :
          /\ b1.kind = "ResBottleneckBlock" /\ b2.kind = "ResBottleneckBlock"
          /\ b1.params.group_w # args.group_w
          /\ b1.w_out * b1.params.bot_mul.n # b1.f.w_b
          /\ b2.f.groups >= 2

====
